---------------------------- MODULE Spec2Model ----------------------------
(***************************************************************************)
(* State-machine model of the net-lab IPv4 host stack (Ethernet, ARP, IP,  *)
(* ICMP, UDP).  Packets are sequences of bytes (0..255); every header      *)
(* field is encoded and decoded at its byte offset.  The host is           *)
(* little-endian: a field assigned swap16(v) holds the bytes <<hi, lo>>,   *)
(* a field assigned a native uint16 holds <<lo, hi>>.                      *)
(*                                                                         *)
(* The packet buffer (buf_t), the expiring table (map_t), the protocol     *)
(* registry (net_in) and the configuration headers are not part of the     *)
(* translated sources; they are modelled from the specification.           *)
(***************************************************************************)
EXTENDS Integers, Sequences, FiniteSets, TLC

VARIABLES
    arp_table,  \* map_t arp_table : ip -> mac, with timestamp
    arp_buf,    \* map_t arp_buf   : ip -> buf_t, with timestamp
    udp_table,  \* map_t udp_table : port -> handler
    ip_id,      \* static uint16_t ip_id
    now,        \* time(NULL)
    calls,      \* number of ip_out calls since start
    ntag,       \* number of buffers the application handed to the stack
    flushed,    \* tags of the buffers arp_in has flushed
    udp_last,   \* per port, what the application did last: opened with a
                \* handler (a pointer to it) or closed (NULL)
    peer,       \* the globals of a second instance of the stack at the other
                \* end of the link, NULL when this host is on its own
    wire,       \* the frames in flight on the link, per receiving end
    ev,         \* what the last operation did (frames sent, calls made)
    op          \* the last operation and its input

vars == <<arp_table, arp_buf, udp_table, ip_id, now, calls, ntag, flushed, udp_last, peer, wire, ev, op>>

----------------------------------------------------------------------------
(* Bounds of the model *)

MaxTime == 3          \* the clock runs 0..MaxTime
MaxCalls == 3         \* app-level sends per run
MaxPayloadUnits == 10 \* IP_MAX_PAYLOAD in units of 8 bytes (185 on a 1500 MTU)
MaxTag == 2           \* distinct raw buffers handed to arp_out
MaxSumLen == 5        \* longest byte sequence given to checksum16 on its own

----------------------------------------------------------------------------
(* Configuration and protocol constants *)

\* a pointer is NULL or holds the value it points to
NULL == <<>>
Ptr(v) == <<v>>
Deref(p) == p[1]

NET_MAC_LEN == 6
NET_IP_LEN == 4
NET_PROTOCOL_ARP == 2054            \* 0x0806
NET_PROTOCOL_IP == 2048             \* 0x0800
NET_PROTOCOL_ICMP == 1
NET_PROTOCOL_UDP == 17
ETHERNET_MIN_TRANSPORT_UNIT == 46
ETHER_HDR_LEN == 14                 \* sizeof(ether_hdr_t)
ARP_HW_ETHER == 1
ARP_REQUEST == 1
ARP_REPLY == 2
ARP_PKT_LEN == 28                   \* sizeof(arp_pkt_t)
ARP_TIMEOUT_SEC == 2
ARP_MIN_INTERVAL == 1
IP_VERSION_4 == 4
IP_HDR_LEN == 5
IP_HDR_LEN_PER_BYTE == 4
IP_MIN_HDR_LEN == 20
IP_MAX_HDR_WORDS == 15
IP_HDR_OFFSET_PER_BYTE == 8
IP_MORE_FRAGMENT == 16384           \* bit 14
IP_DEFAULT_TOS == 0
IP_DEFAULT_TTL == 64
IP_MAX_PAYLOAD == IP_HDR_OFFSET_PER_BYTE * MaxPayloadUnits
ICMP_HDR_LEN == 8                   \* sizeof(icmp_hdr_t)
ICMP_TYPE_ECHO_REQUEST == 8
ICMP_TYPE_ECHO_REPLY == 0
ICMP_TYPE_UNREACH == 3
ICMP_CODE_PROTOCOL_UNREACH == 2
ICMP_CODE_PORT_UNREACH == 3
UDP_HDR_LEN == 8                    \* sizeof(udp_hdr_t)
PESO_HDR_LEN == 12                  \* sizeof(peso_hdr_t)
UINT16 == 65536

net_if_ip == <<10, 0, 0, 1>>
net_if_mac == <<17, 34, 51, 68, 85, 102>>
broadcast_mac == <<255, 255, 255, 255, 255, 255>>

----------------------------------------------------------------------------
(* Bytes *)

Zeros(n) == [i \in 1..n |-> 0]
Take(s, n) == SubSeq(s, 1, n)
Drop(s, n) == SubSeq(s, n + 1, Len(s))
\* bytes [off, off+n) of s, off counted from 0
Bytes(s, off, n) == SubSeq(s, off + 1, off + n)
\* s with the bytes at [off, off+Len(b)) replaced by b
Poke(s, off, b) ==
    [i \in 1..Len(s) |-> IF i > off /\ i <= off + Len(b) THEN b[i - off] ELSE s[i]]

\* the two bytes of a field that was assigned swap16(v)
swap16(v) == <<(v % UINT16) \div 256, v % 256>>
\* swap16(field) read back as a host integer
unswap16(s, off) == s[off + 1] * 256 + s[off + 2]
\* a uint16 field assigned or read without byte swapping
native16(v) == <<v % 256, (v % UINT16) \div 256>>
rdnative16(s, off) == s[off + 1] + s[off + 2] * 256

----------------------------------------------------------------------------
(* buf_t: a window (data, len) over a byte array; "pre" is the array       *)
(* content in front of the window, which buf_add_header brings back.       *)

\* "post" is the array content behind the window (removed padding), and
\* "tag" names the buffer object (0: a buffer the stack built itself).
buf_init(n) == [pre |-> <<>>, data |-> Zeros(n), post |-> <<>>, tag |-> 0]
buf_of(bytes, tag) == [pre |-> <<>>, data |-> bytes, post |-> <<>>, tag |-> tag]

buf_add_header(buf, n) ==
    LET p == buf.pre
        have == IF Len(p) >= n THEN p ELSE Zeros(n - Len(p)) \o p
    IN  [buf EXCEPT !.pre = Take(have, Len(have) - n),
                    !.data = Drop(have, Len(have) - n) \o buf.data]

buf_remove_header(buf, n) ==
    [buf EXCEPT !.pre = buf.pre \o Take(buf.data, n), !.data = Drop(buf.data, n)]

buf_add_padding(buf, n) ==
    [buf EXCEPT !.data = @ \o Zeros(n),
                !.post = IF Len(@) > n THEN Drop(@, n) ELSE <<>>]

buf_remove_padding(buf, n) ==
    [buf EXCEPT !.data = Take(@, Len(@) - n),
                !.post = Drop(buf.data, Len(buf.data) - n) \o @]

\* value constructor of arp_buf: the stored entry is a copy of the window
buf_copy(buf) == [pre |-> <<>>, data |-> buf.data, post |-> <<>>, tag |-> buf.tag]

\* the array from the start of the window on, and a store into it
Mem(buf) == buf.data \o buf.post
SetMem(buf, off, b) ==
    LET m == Poke(Mem(buf), off, b)
    IN  [buf EXCEPT !.data = Take(m, Len(buf.data)), !.post = Drop(m, Len(buf.data))]

----------------------------------------------------------------------------
(* map_t: keyed table whose entries carry the time they were set; a get    *)
(* treats an entry older than the table's timeout as absent.               *)

map_init == <<>>

map_entry_valid(m, k, timeout, t) ==
    k \in DOMAIN m /\ (timeout = 0 \/ m[k].ts + timeout >= t)

map_get(m, k, timeout, t) ==
    IF map_entry_valid(m, k, timeout, t) THEN Ptr(m[k].val) ELSE NULL

map_set(m, k, v, t) ==
    [x \in DOMAIN m \cup {k} |-> IF x = k THEN [val |-> v, ts |-> t] ELSE m[x]]

map_delete(m, k) == [x \in DOMAIN m \ {k} |-> m[x]]

----------------------------------------------------------------------------
(* utils.c *)

RECURSIVE SumWords(_, _)
SumWords(data, n) ==
    IF n = 0 THEN 0
    ELSE SumWords(data, n - 1) + rdnative16(data, 2 * (n - 1))

RECURSIVE Fold(_)
Fold(sum) ==
    IF sum \div UINT16 # 0 THEN Fold((sum % UINT16) + (sum \div UINT16)) ELSE sum

\* checksum16 that leaves out the odd trailing byte
checksum16_noodd(data, len) ==
    (UINT16 - 1) - Fold(SumWords(data, len \div 2))

checksum16(data, len) ==
    LET words == SumWords(data, len \div 2)
        sum == IF len % 2 # 0 THEN words + data[len] ELSE words
    IN  (UINT16 - 1) - Fold(sum)

\* the pseudo header is written over the 12 bytes in front of the segment,
\* summed with it, and the overwritten bytes are put back
transport_checksum(protocol, buf, src_ip, dst_ip) ==
    LET orig_buf_len == Len(buf.data)
        b1 == buf_add_header(buf, PESO_HDR_LEN)
        pseudo == src_ip \o dst_ip \o <<0, protocol % 256>> \o swap16(orig_buf_len)
        b2 == [b1 EXCEPT !.data = Poke(@, 0, pseudo)]
    IN  checksum16(b2.data, Len(b2.data))

----------------------------------------------------------------------------
(* The operations below take the stack state s (a record of the program's  *)
(* globals: the interface's addresses net_if_ip and net_if_mac, the tables *)
(* and the counters, plus the log s.ev of the current operation) and       *)
(* return the state after the call.                                        *)

Log(s, e) == [s EXCEPT !.ev = Append(@, e)]

driver_send(s, buf) == Log(s, [kind |-> "driver_send", frame |-> buf.data])

----------------------------------------------------------------------------
(* ethernet.c *)

\* ethernet_out without the padding of short payloads
ethernet_out_nopad(s, buf, mac, protocol) ==
    LET hdr == buf_add_header(buf, ETHER_HDR_LEN)
        filled == [hdr EXCEPT !.data =
                      Poke(Poke(Poke(@, 0, mac), 6, s.net_if_mac), 12, swap16(protocol))]
        s1 == Log(s, [kind |-> "ethernet_out", payload |-> buf.data, mac |-> mac,
                      protocol |-> protocol, tag |-> buf.tag])
    IN  driver_send(s1, filled)

ethernet_out(s, buf, mac, protocol) ==
    LET padded == IF Len(buf.data) < ETHERNET_MIN_TRANSPORT_UNIT
                  THEN buf_add_padding(buf, ETHERNET_MIN_TRANSPORT_UNIT - Len(buf.data))
                  ELSE buf
        hdr == buf_add_header(padded, ETHER_HDR_LEN)
        filled == [hdr EXCEPT !.data =
                      Poke(Poke(Poke(@, 0, mac), 6, s.net_if_mac), 12, swap16(protocol))]
        s1 == Log(s, [kind |-> "ethernet_out", payload |-> buf.data, mac |-> mac,
                      protocol |-> protocol, tag |-> buf.tag])
    IN  driver_send(s1, filled)

----------------------------------------------------------------------------
(* arp.c *)

\* the 28 bytes of an arp_pkt_t
arp_pkt(hw_type, pro_type, hw_len, pro_len, opcode, smac, sip, tmac, tip) ==
    swap16(hw_type) \o swap16(pro_type) \o <<hw_len, pro_len>> \o swap16(opcode)
        \o smac \o sip \o tmac \o tip

arp_req(s, target_ip) ==
    LET txbuf == [buf_init(ARP_PKT_LEN) EXCEPT !.data =
                     arp_pkt(ARP_HW_ETHER, NET_PROTOCOL_IP, 6, 4, ARP_REQUEST,
                             s.net_if_mac, s.net_if_ip, Zeros(NET_MAC_LEN), target_ip)]
    IN  ethernet_out(Log(s, [kind |-> "arp_req", ip |-> target_ip]),
                     txbuf, broadcast_mac, NET_PROTOCOL_ARP)

\* arp_resp that leaves the opcode of a request in the packet
arp_resp_opcode(s, target_ip, target_mac) ==
    LET txbuf == [buf_init(ARP_PKT_LEN) EXCEPT !.data =
                     arp_pkt(ARP_HW_ETHER, NET_PROTOCOL_IP, NET_MAC_LEN, NET_IP_LEN,
                             ARP_REQUEST, s.net_if_mac, s.net_if_ip, target_mac, target_ip)]
    IN  ethernet_out(Log(s, [kind |-> "arp_resp", ip |-> target_ip, mac |-> target_mac]),
                     txbuf, target_mac, NET_PROTOCOL_ARP)

arp_resp(s, target_ip, target_mac) ==
    LET txbuf == [buf_init(ARP_PKT_LEN) EXCEPT !.data =
                     arp_pkt(ARP_HW_ETHER, NET_PROTOCOL_IP, NET_MAC_LEN, NET_IP_LEN,
                             ARP_REPLY, s.net_if_mac, s.net_if_ip, target_mac, target_ip)]
    IN  ethernet_out(Log(s, [kind |-> "arp_resp", ip |-> target_ip, mac |-> target_mac]),
                     txbuf, target_mac, NET_PROTOCOL_ARP)

\* the packet checks of arp_in: TRUE when the packet is processed
arp_in_accepts(d) ==
    /\ Len(d) >= ARP_PKT_LEN
    /\ unswap16(d, 0) = ARP_HW_ETHER
    /\ unswap16(d, 2) = NET_PROTOCOL_IP
    /\ d[5] = NET_MAC_LEN
    /\ d[6] = NET_IP_LEN
    /\ unswap16(d, 6) \in {ARP_REQUEST, ARP_REPLY}

\* arp_in that keeps the pending entry after flushing it
arp_in_keep(s, buf, src_mac) ==
    LET d == buf.data
        opcode == unswap16(d, 6)
        sender_mac == Bytes(d, 8, 6)
        sender_ip == Bytes(d, 14, 4)
        target_ip == Bytes(d, 24, 4)
    IN  IF ~arp_in_accepts(d) THEN s
        ELSE
            LET s1 == [s EXCEPT !.arp_table = map_set(@, sender_ip, sender_mac, s.now)]
                cached_buf == map_get(s1.arp_buf, sender_ip, ARP_MIN_INTERVAL, s.now)
            IN  IF cached_buf # NULL
                THEN ethernet_out(Log(s1, [kind |-> "arp_flush", ip |-> sender_ip,
                                           tag |-> Deref(cached_buf).tag,
                                           cached |-> map_get(s1.arp_table, sender_ip,
                                                              ARP_TIMEOUT_SEC, s.now)]),
                                  Deref(cached_buf), sender_mac, NET_PROTOCOL_IP)
                ELSE IF opcode = ARP_REQUEST /\ target_ip = s.net_if_ip
                THEN arp_resp(s1, sender_ip, sender_mac)
                ELSE s1

\* arp_in without the return after the flush: a request is answered as well
arp_in_noreturn(s, buf, src_mac) ==
    LET d == buf.data
        opcode == unswap16(d, 6)
        sender_mac == Bytes(d, 8, 6)
        sender_ip == Bytes(d, 14, 4)
        target_ip == Bytes(d, 24, 4)
        s1 == [s EXCEPT !.arp_table = map_set(@, sender_ip, sender_mac, s.now)]
        cached_buf == map_get(s1.arp_buf, sender_ip, ARP_MIN_INTERVAL, s.now)
        s2 == ethernet_out(Log(s1, [kind |-> "arp_flush", ip |-> sender_ip,
                                    tag |-> Deref(cached_buf).tag,
                                    cached |-> map_get(s1.arp_table, sender_ip,
                                                       ARP_TIMEOUT_SEC, s.now)]),
                           Deref(cached_buf), sender_mac, NET_PROTOCOL_IP)
        s3 == IF cached_buf # NULL
              THEN [s2 EXCEPT !.arp_buf = map_delete(@, sender_ip)]
              ELSE s1
    IN  IF ~arp_in_accepts(d) THEN s
        ELSE IF opcode = ARP_REQUEST /\ target_ip = s.net_if_ip
        THEN arp_resp(s3, sender_ip, sender_mac)
        ELSE s3

\* arp_in that learns the sender only when the packet is for the local address
arp_in_forme(s, buf, src_mac) ==
    LET d == buf.data
        opcode == unswap16(d, 6)
        sender_mac == Bytes(d, 8, 6)
        sender_ip == Bytes(d, 14, 4)
        target_ip == Bytes(d, 24, 4)
        s1 == IF target_ip = s.net_if_ip
              THEN [s EXCEPT !.arp_table = map_set(@, sender_ip, sender_mac, s.now)]
              ELSE s
        cached_buf == map_get(s1.arp_buf, sender_ip, ARP_MIN_INTERVAL, s.now)
    IN  IF ~arp_in_accepts(d) THEN s
        ELSE IF cached_buf # NULL
        THEN LET s2 == ethernet_out(
                           Log(s1, [kind |-> "arp_flush", ip |-> sender_ip,
                                    tag |-> Deref(cached_buf).tag,
                                    cached |-> map_get(s1.arp_table, sender_ip,
                                                       ARP_TIMEOUT_SEC, s.now)]),
                           Deref(cached_buf), sender_mac, NET_PROTOCOL_IP)
             IN  [s2 EXCEPT !.arp_buf = map_delete(@, sender_ip)]
        ELSE IF opcode = ARP_REQUEST /\ target_ip = s.net_if_ip
        THEN arp_resp(s1, sender_ip, sender_mac)
        ELSE s1

arp_in(s, buf, src_mac) ==
    LET d == buf.data
        opcode == unswap16(d, 6)
        sender_mac == Bytes(d, 8, 6)
        sender_ip == Bytes(d, 14, 4)
        target_ip == Bytes(d, 24, 4)
    IN  IF Len(d) < ARP_PKT_LEN THEN s
        ELSE IF unswap16(d, 0) # ARP_HW_ETHER THEN s
        ELSE IF unswap16(d, 2) # NET_PROTOCOL_IP THEN s
        ELSE IF d[5] # NET_MAC_LEN THEN s
        ELSE IF d[6] # NET_IP_LEN THEN s
        ELSE IF opcode # ARP_REQUEST /\ opcode # ARP_REPLY THEN s
        ELSE
            LET s1 == [s EXCEPT !.arp_table = map_set(@, sender_ip, sender_mac, s.now)]
                cached_buf == map_get(s1.arp_buf, sender_ip, ARP_MIN_INTERVAL, s.now)
            IN  IF cached_buf # NULL
                THEN LET s2 == ethernet_out(
                                   Log(s1, [kind |-> "arp_flush", ip |-> sender_ip,
                                            tag |-> Deref(cached_buf).tag,
                                            cached |-> map_get(s1.arp_table, sender_ip,
                                                               ARP_TIMEOUT_SEC, s.now)]),
                                   Deref(cached_buf), sender_mac, NET_PROTOCOL_IP)
                     IN  [s2 EXCEPT !.arp_buf = map_delete(@, sender_ip)]
                ELSE IF opcode = ARP_REQUEST /\ target_ip = s.net_if_ip
                THEN arp_resp(s1, sender_ip, sender_mac)
                ELSE s1

\* arp_out that stores the buffer and asks again although one is pending
arp_out_replace(s, buf, ip) ==
    LET dst_mac == map_get(s.arp_table, ip, ARP_TIMEOUT_SEC, s.now)
    IN  IF dst_mac # NULL THEN ethernet_out(s, buf, Deref(dst_mac), NET_PROTOCOL_IP)
        ELSE arp_req([s EXCEPT !.arp_buf = map_set(@, ip, buf_copy(buf), s.now)], ip)

\* arp_out that also keeps a copy of a buffer it sends at once
arp_out_hold(s, buf, ip) ==
    LET dst_mac == map_get(s.arp_table, ip, ARP_TIMEOUT_SEC, s.now)
        cached_buf == map_get(s.arp_buf, ip, ARP_MIN_INTERVAL, s.now)
        stored == [s EXCEPT !.arp_buf = map_set(@, ip, buf_copy(buf), s.now)]
    IN  IF dst_mac # NULL THEN ethernet_out(stored, buf, Deref(dst_mac), NET_PROTOCOL_IP)
        ELSE IF cached_buf # NULL THEN s
        ELSE arp_req(stored, ip)

\* arp_out that puts a later buffer in the place of the pending one
arp_out_last(s, buf, ip) ==
    LET dst_mac == map_get(s.arp_table, ip, ARP_TIMEOUT_SEC, s.now)
        cached_buf == map_get(s.arp_buf, ip, ARP_MIN_INTERVAL, s.now)
        stored == [s EXCEPT !.arp_buf = map_set(@, ip, buf_copy(buf), s.now)]
    IN  IF dst_mac # NULL THEN ethernet_out(s, buf, Deref(dst_mac), NET_PROTOCOL_IP)
        ELSE IF cached_buf # NULL THEN stored
        ELSE arp_req(stored, ip)

\* arp_out that takes a cache entry of any age
arp_out_stale(s, buf, ip) ==
    LET dst_mac == map_get(s.arp_table, ip, 0, s.now)
        cached_buf == map_get(s.arp_buf, ip, ARP_MIN_INTERVAL, s.now)
    IN  IF dst_mac # NULL THEN ethernet_out(s, buf, Deref(dst_mac), NET_PROTOCOL_IP)
        ELSE IF cached_buf # NULL THEN s
        ELSE arp_req([s EXCEPT !.arp_buf = map_set(@, ip, buf_copy(buf), s.now)], ip)

\* arp_out that does not ask again when it replaces an expired pending entry
arp_out_noreq(s, buf, ip) ==
    LET dst_mac == map_get(s.arp_table, ip, ARP_TIMEOUT_SEC, s.now)
        cached_buf == map_get(s.arp_buf, ip, ARP_MIN_INTERVAL, s.now)
        stored == [s EXCEPT !.arp_buf = map_set(@, ip, buf_copy(buf), s.now)]
    IN  IF dst_mac # NULL THEN ethernet_out(s, buf, Deref(dst_mac), NET_PROTOCOL_IP)
        ELSE IF cached_buf # NULL THEN s
        ELSE IF ip \in DOMAIN s.arp_buf THEN stored
        ELSE arp_req(stored, ip)

arp_out(s, buf, ip) ==
    LET dst_mac == map_get(s.arp_table, ip, ARP_TIMEOUT_SEC, s.now)
        cached_buf == map_get(s.arp_buf, ip, ARP_MIN_INTERVAL, s.now)
    IN  IF dst_mac # NULL THEN ethernet_out(s, buf, Deref(dst_mac), NET_PROTOCOL_IP)
        ELSE IF cached_buf # NULL THEN s
        ELSE arp_req([s EXCEPT !.arp_buf = map_set(@, ip, buf_copy(buf), s.now)], ip)

arp_init(s) ==
    arp_req([s EXCEPT !.arp_table = map_init, !.arp_buf = map_init], s.net_if_ip)

----------------------------------------------------------------------------
(* ip.c, send side *)

\* a | b for a flag bit a and a value b
BitOr(bit, v) == IF (v \div bit) % 2 = 1 THEN v ELSE v + bit

\* the 20 header bytes ip_fragment_out writes, checksum field still zero
ip_hdr_fill(s, len, ip, protocol, id, offset, mf) ==
    LET q == offset \div IP_HDR_OFFSET_PER_BYTE
        flags_fragment == IF mf # 0 THEN BitOr(IP_MORE_FRAGMENT, q) ELSE q
    IN  <<IP_VERSION_4 * 16 + IP_HDR_LEN, IP_DEFAULT_TOS>> \o swap16(len)
            \o swap16(id) \o swap16(flags_fragment)
            \o <<IP_DEFAULT_TTL, protocol % 256, 0, 0>> \o s.net_if_ip \o ip

\* ip_fragment_out that byte-swaps the checksum it stores
ip_fragment_out_swapped(s, buf, ip, protocol, id, offset, mf) ==
    LET b1 == buf_add_header(buf, IP_HDR_LEN * IP_HDR_LEN_PER_BYTE)
        hdr == ip_hdr_fill(s, Len(b1.data), ip, protocol, id, offset, mf)
        b2 == [b1 EXCEPT !.data = Poke(@, 0, hdr)]
        sum == checksum16(b2.data, IP_HDR_LEN * IP_HDR_LEN_PER_BYTE)
        b3 == [b2 EXCEPT !.data = Poke(@, 10, swap16(sum))]
        s1 == Log(s, [kind |-> "ip_fragment_out", data |-> buf.data, ip |-> ip,
                      protocol |-> protocol, id |-> id, offset |-> offset,
                      mf |-> mf, datagram |-> b3.data])
    IN  arp_out(s1, b3, ip)

ip_fragment_out(s, buf, ip, protocol, id, offset, mf) ==
    LET b1 == buf_add_header(buf, IP_HDR_LEN * IP_HDR_LEN_PER_BYTE)
        hdr == ip_hdr_fill(s, Len(b1.data), ip, protocol, id, offset, mf)
        b2 == [b1 EXCEPT !.data = Poke(@, 0, hdr)]
        sum == checksum16(b2.data, IP_HDR_LEN * IP_HDR_LEN_PER_BYTE)
        b3 == [b2 EXCEPT !.data = Poke(@, 10, native16(sum))]
        s1 == Log(s, [kind |-> "ip_fragment_out", data |-> buf.data, ip |-> ip,
                      protocol |-> protocol, id |-> id, offset |-> offset,
                      mf |-> mf, datagram |-> b3.data])
    IN  arp_out(s1, b3, ip)

\* the loop of ip_out with <= for <: a payload of whole chunks gets no last
\* fragment
RECURSIVE ip_out_loop_le(_, _, _, _, _, _, _)
ip_out_loop_le(s, buf, ip, protocol, cur_id, sent_len, fragment_offset) ==
    IF sent_len + IP_MAX_PAYLOAD <= Len(buf.data)
    THEN LET frag_buf == [buf_init(IP_MAX_PAYLOAD) EXCEPT
                             !.data = Bytes(buf.data, sent_len, IP_MAX_PAYLOAD)]
             s1 == ip_fragment_out(s, frag_buf, ip, protocol, cur_id, fragment_offset, 1)
         IN  ip_out_loop_le(s1, buf, ip, protocol, cur_id, sent_len + IP_MAX_PAYLOAD,
                            (fragment_offset + IP_MAX_PAYLOAD) % UINT16)
    ELSE [st |-> s, sent_len |-> sent_len, fragment_offset |-> fragment_offset]

\* the while loop of ip_out: every fragment but the last
RECURSIVE ip_out_loop(_, _, _, _, _, _, _)
ip_out_loop(s, buf, ip, protocol, cur_id, sent_len, fragment_offset) ==
    IF sent_len + IP_MAX_PAYLOAD < Len(buf.data)
    THEN LET frag_buf == [buf_init(IP_MAX_PAYLOAD) EXCEPT
                             !.data = Bytes(buf.data, sent_len, IP_MAX_PAYLOAD)]
             s1 == ip_fragment_out(s, frag_buf, ip, protocol, cur_id, fragment_offset, 1)
         IN  ip_out_loop(s1, buf, ip, protocol, cur_id, sent_len + IP_MAX_PAYLOAD,
                         (fragment_offset + IP_MAX_PAYLOAD) % UINT16)
    ELSE [st |-> s, sent_len |-> sent_len, fragment_offset |-> fragment_offset]

\* ip_out that takes a fresh id for every fragment
ip_out_idperfrag(s, buf, ip, protocol) ==
    LET payload_len == Len(buf.data)
        cur_id == s.ip_id
        s0 == Log([s EXCEPT !.ip_id = (@ + 1) % UINT16, !.calls = @ + 1],
                  [kind |-> "ip_out", data |-> buf.data, ip |-> ip,
                   protocol |-> protocol, id |-> cur_id, n |-> s.calls + 1])
    IN  IF payload_len > IP_MAX_PAYLOAD
        THEN LET r == ip_out_loop(s0, buf, ip, protocol, cur_id, 0, 0)
                 last_frag_len == payload_len - r.sent_len
                 last_frag_buf == [buf_init(last_frag_len) EXCEPT
                                      !.data = Bytes(buf.data, r.sent_len, last_frag_len)]
                 s2 == [r.st EXCEPT !.ip_id = (@ + 1) % UINT16]
             IN  ip_fragment_out(s2, last_frag_buf, ip, protocol, s2.ip_id,
                                 r.fragment_offset, 0)
        ELSE ip_fragment_out(s0, buf, ip, protocol, cur_id, 0, 0)

ip_out(s, buf, ip, protocol) ==
    LET payload_len == Len(buf.data)
        cur_id == s.ip_id
        s0 == Log([s EXCEPT !.ip_id = (@ + 1) % UINT16, !.calls = @ + 1],
                  [kind |-> "ip_out", data |-> buf.data, ip |-> ip,
                   protocol |-> protocol, id |-> cur_id, n |-> s.calls + 1])
    IN  IF payload_len > IP_MAX_PAYLOAD
        THEN LET r == ip_out_loop(s0, buf, ip, protocol, cur_id, 0, 0)
                 last_frag_len == payload_len - r.sent_len
                 last_frag_buf == [buf_init(last_frag_len) EXCEPT
                                      !.data = Bytes(buf.data, r.sent_len, last_frag_len)]
             IN  IF last_frag_len > 0
                 THEN ip_fragment_out(r.st, last_frag_buf, ip, protocol, cur_id,
                                      r.fragment_offset, 0)
                 ELSE r.st
        ELSE ip_fragment_out(s0, buf, ip, protocol, cur_id, 0, 0)

----------------------------------------------------------------------------
(* icmp.c *)

\* icmp_resp that keeps the checksum of the request
icmp_resp_oldsum(s, req_buf, src_ip) ==
    LET copy == [buf_init(Len(req_buf.data)) EXCEPT !.data = req_buf.data]
        txbuf == [copy EXCEPT !.data = Poke(@, 0, <<ICMP_TYPE_ECHO_REPLY, 0>>)]
    IN  ip_out(Log(s, [kind |-> "icmp_resp", data |-> txbuf.data, ip |-> src_ip]),
               txbuf, src_ip, NET_PROTOCOL_ICMP)

icmp_resp(s, req_buf, src_ip) ==
    LET copy == [buf_init(Len(req_buf.data)) EXCEPT !.data = req_buf.data]
        hdr == [copy EXCEPT !.data = Poke(@, 0, <<ICMP_TYPE_ECHO_REPLY, 0, 0, 0>>)]
        sum == checksum16(hdr.data, Len(hdr.data))
        txbuf == [hdr EXCEPT !.data = Poke(@, 2, native16(sum))]
    IN  ip_out(Log(s, [kind |-> "icmp_resp", data |-> txbuf.data, ip |-> src_ip]),
               txbuf, src_ip, NET_PROTOCOL_ICMP)

\* icmp_in that answers every message, whatever its type
icmp_in_all(s, buf, src) ==
    LET src_ip == Take(src, NET_IP_LEN)
        s1 == Log(s, [kind |-> "icmp_in", data |-> buf.data, ip |-> src_ip])
    IN  IF Len(buf.data) < ICMP_HDR_LEN THEN s1
        ELSE icmp_resp(s1, buf, src_ip)

icmp_in(s, buf, src) ==
    LET src_ip == Take(src, NET_IP_LEN)
        s1 == Log(s, [kind |-> "icmp_in", data |-> buf.data, ip |-> src_ip])
    IN  IF Len(buf.data) < ICMP_HDR_LEN THEN s1
        ELSE IF buf.data[1] # ICMP_TYPE_ECHO_REQUEST THEN s1
        ELSE icmp_resp(s1, buf, src_ip)

icmp_unreachable(s, recv_buf, src_ip, code) ==
    LET ip_hdr_len == (recv_buf.data[1] % 16) * IP_HDR_LEN_PER_BYTE
        \* recv_buf->len - ip_hdr_len is a size_t: below zero it wraps to a
        \* huge value, which is >= 8
        len == Len(recv_buf.data)
        payload_copy_len == IF len < ip_hdr_len \/ len - ip_hdr_len >= 8
                            THEN 8 ELSE len - ip_hdr_len
        icmp_data == Bytes(Mem(recv_buf), 0, ip_hdr_len)
                         \o Bytes(Mem(recv_buf), ip_hdr_len, payload_copy_len)
                         \o Zeros(8 - payload_copy_len)
        msg == <<ICMP_TYPE_UNREACH, code, 0, 0, 0, 0, 0, 0>> \o icmp_data
        sum == checksum16(msg, Len(msg))
        txbuf == [buf_init(Len(msg)) EXCEPT !.data = Poke(msg, 2, native16(sum))]
    IN  ip_out(Log(s, [kind |-> "icmp_unreachable", data |-> txbuf.data,
                       ip |-> src_ip, code |-> code]),
               txbuf, src_ip, NET_PROTOCOL_ICMP)

----------------------------------------------------------------------------
(* udp.c *)

udp_in(s, buf, src) ==
    LET src_ip == Take(src, NET_IP_LEN)
        udp_total_len == unswap16(buf.data, 4)
        b1 == IF Len(buf.data) > udp_total_len
              THEN buf_remove_padding(buf, Len(buf.data) - udp_total_len)
              ELSE buf
        orig_checksum == rdnative16(Mem(b1), 6)
        b2 == SetMem(b1, 6, <<0, 0>>)
        calc_checksum == transport_checksum(NET_PROTOCOL_UDP, b2, src_ip, s.net_if_ip)
        b3 == SetMem(b2, 6, native16(orig_checksum))
        dst_port == unswap16(Mem(b3), 2)
        handler == map_get(s.udp_table, dst_port, 0, s.now)
        src_port == unswap16(Mem(b3), 0)
        s1 == Log(s, [kind |-> "udp_in", data |-> buf.data, ip |-> src_ip])
    IN  IF Len(buf.data) < UDP_HDR_LEN THEN s1
        ELSE IF Len(buf.data) < udp_total_len THEN s1
        ELSE IF calc_checksum # orig_checksum THEN s1
        ELSE IF handler = NULL
        THEN icmp_unreachable(s1, buf_add_header(b3, IP_HDR_LEN * IP_HDR_LEN_PER_BYTE),
                              src_ip, ICMP_CODE_PORT_UNREACH)
        ELSE LET b4 == buf_remove_header(b3, UDP_HDR_LEN)
             IN  Log(s1, [kind |-> "handler", handler |-> Deref(handler), data |-> b4.data,
                          len |-> Len(b4.data), ip |-> src_ip, port |-> src_port])

udp_out(s, buf, src_port, dst_ip, dst_port) ==
    LET b1 == buf_add_header(buf, UDP_HDR_LEN)
        b2 == [b1 EXCEPT !.data =
                  Poke(@, 0, swap16(src_port) \o swap16(dst_port)
                                 \o swap16(Len(b1.data)) \o <<0, 0>>)]
        sum == transport_checksum(NET_PROTOCOL_UDP, b2, s.net_if_ip, dst_ip)
        b3 == [b2 EXCEPT !.data = Poke(@, 6, native16(sum))]
    IN  ip_out(Log(s, [kind |-> "udp_out", data |-> b3.data, ip |-> dst_ip]),
               b3, dst_ip, NET_PROTOCOL_UDP)

udp_send(s, data, len, src_port, dst_ip, dst_port) ==
    udp_out(s, [buf_init(len) EXCEPT !.data = Take(data, len)], src_port, dst_ip, dst_port)

\* udp_open that keeps the handler a port already has
udp_open_keep(s, port, handler) ==
    IF port \in DOMAIN s.udp_table THEN s
    ELSE [s EXCEPT !.udp_table = map_set(@, port, handler, s.now)]

udp_open(s, port, handler) == [s EXCEPT !.udp_table = map_set(@, port, handler, s.now)]

udp_close(s, port) == [s EXCEPT !.udp_table = map_delete(@, port)]

----------------------------------------------------------------------------
(* ip.c, receive side; net_in is the protocol registry filled by the       *)
(* *_init functions: ARP, IP, ICMP and UDP are registered.                 *)

RECURSIVE net_in(_, _, _, _)

\* the checks of ip_in without the comparison of the destination address
ip_in_check_nodst(s, d) ==
    LET hdr_len == d[1] % 16
        actual_hdr_len == hdr_len * IP_HDR_LEN_PER_BYTE
        ip_total_len == unswap16(d, 2)
        orig_checksum == rdnative16(d, 10)
        calc_checksum == checksum16(Poke(d, 10, <<0, 0>>), actual_hdr_len)
    IN  IF Len(d) < IP_MIN_HDR_LEN THEN "length"
        ELSE IF d[1] \div 16 # IP_VERSION_4 THEN "version"
        ELSE IF hdr_len < IP_HDR_LEN \/ hdr_len > IP_MAX_HDR_WORDS THEN "hdr_len"
        ELSE IF ip_total_len > Len(d) \/ ip_total_len < actual_hdr_len THEN "total_len"
        ELSE IF calc_checksum # orig_checksum THEN "checksum"
        ELSE "ok"

\* the checks of ip_in in the order of its early returns: the name of the
\* check that drops the datagram, or "ok"
ip_in_check(s, d) ==
    LET hdr_len == d[1] % 16
        actual_hdr_len == hdr_len * IP_HDR_LEN_PER_BYTE
        ip_total_len == unswap16(d, 2)
        orig_checksum == rdnative16(d, 10)
        calc_checksum == checksum16(Poke(d, 10, <<0, 0>>), actual_hdr_len)
    IN  IF Len(d) < IP_MIN_HDR_LEN THEN "length"
        ELSE IF d[1] \div 16 # IP_VERSION_4 THEN "version"
        ELSE IF hdr_len < IP_HDR_LEN \/ hdr_len > IP_MAX_HDR_WORDS THEN "hdr_len"
        ELSE IF ip_total_len > Len(d) \/ ip_total_len < actual_hdr_len THEN "total_len"
        ELSE IF calc_checksum # orig_checksum THEN "checksum"
        ELSE IF Bytes(d, 16, 4) # s.net_if_ip THEN "dst_ip"
        ELSE "ok"

\* ip_in that records the frame's source MAC for the source address
ip_in_learn(s, buf, src_mac) ==
    LET d == buf.data
        actual_hdr_len == (d[1] % 16) * IP_HDR_LEN_PER_BYTE
        ip_total_len == unswap16(d, 2)
        protocol == d[10]
        src_ip == Bytes(d, 12, 4)
        b1 == IF Len(d) > ip_total_len
              THEN buf_remove_padding(buf, Len(d) - ip_total_len)
              ELSE buf
        b2 == buf_remove_header(b1, actual_hdr_len)
        s0 == [s EXCEPT !.arp_table = map_set(@, src_ip, src_mac, s.now)]
        r == net_in(Log(s0, [kind |-> "ip_deliver", data |-> b2.data,
                             protocol |-> protocol, ip |-> src_ip]),
                    b2, protocol, src_ip)
    IN  IF ip_in_check(s, d) # "ok" THEN s
        ELSE IF r.ret = -1
        THEN icmp_unreachable(r.st, buf_add_header(b2, actual_hdr_len), src_ip,
                              ICMP_CODE_PROTOCOL_UNREACH)
        ELSE r.st

\* ip_in that reports an unknown protocol with the code of an unknown port
ip_in_portcode(s, buf, src_mac) ==
    LET d == buf.data
        actual_hdr_len == (d[1] % 16) * IP_HDR_LEN_PER_BYTE
        ip_total_len == unswap16(d, 2)
        protocol == d[10]
        src_ip == Bytes(d, 12, 4)
        b1 == IF Len(d) > ip_total_len
              THEN buf_remove_padding(buf, Len(d) - ip_total_len)
              ELSE buf
        b2 == buf_remove_header(b1, actual_hdr_len)
        r == net_in(Log(s, [kind |-> "ip_deliver", data |-> b2.data,
                            protocol |-> protocol, ip |-> src_ip]),
                    b2, protocol, src_ip)
    IN  IF ip_in_check(s, d) # "ok" THEN s
        ELSE IF r.ret = -1
        THEN icmp_unreachable(r.st, buf_add_header(b2, actual_hdr_len), src_ip,
                              ICMP_CODE_PORT_UNREACH)
        ELSE r.st

ip_in(s, buf, src_mac) ==
    LET d == buf.data
        actual_hdr_len == (d[1] % 16) * IP_HDR_LEN_PER_BYTE
        ip_total_len == unswap16(d, 2)
        protocol == d[10]
        src_ip == Bytes(d, 12, 4)
        b1 == IF Len(d) > ip_total_len
              THEN buf_remove_padding(buf, Len(d) - ip_total_len)
              ELSE buf
        b2 == buf_remove_header(b1, actual_hdr_len)
        r == net_in(Log(s, [kind |-> "ip_deliver", data |-> b2.data,
                            protocol |-> protocol, ip |-> src_ip]),
                    b2, protocol, src_ip)
    IN  IF ip_in_check(s, d) # "ok" THEN s
        ELSE IF r.ret = -1
        THEN icmp_unreachable(r.st, buf_add_header(b2, actual_hdr_len), src_ip,
                              ICMP_CODE_PROTOCOL_UNREACH)
        ELSE r.st

net_in(s, buf, protocol, src) ==
    IF protocol = NET_PROTOCOL_ARP THEN [st |-> arp_in(s, buf, src), ret |-> 0]
    ELSE IF protocol = NET_PROTOCOL_IP THEN [st |-> ip_in(s, buf, src), ret |-> 0]
    ELSE IF protocol = NET_PROTOCOL_ICMP THEN [st |-> icmp_in(s, buf, src), ret |-> 0]
    ELSE IF protocol = NET_PROTOCOL_UDP THEN [st |-> udp_in(s, buf, src), ret |-> 0]
    ELSE [st |-> s, ret |-> -1]

----------------------------------------------------------------------------
(* ethernet.c, receive side *)

ethernet_in(s, buf) ==
    IF Len(buf.data) < ETHER_HDR_LEN THEN s
    ELSE LET src_mac == Bytes(buf.data, 6, 6)
             protocol == unswap16(buf.data, 12)
         IN  net_in(s, buf_remove_header(buf, ETHER_HDR_LEN), protocol, src_mac).st

----------------------------------------------------------------------------
(* Peers and the frames they put on the wire *)

IP_A == <<10, 0, 0, 2>>
IP_B == <<10, 0, 0, 3>>
MAC_A == <<170, 170, 170, 170, 170, 170>>
MAC_A2 == <<172, 172, 172, 172, 172, 172>>
MAC_B == <<187, 187, 187, 187, 187, 187>>

\* an Ethernet II frame as a peer's driver delivers it, payload padded to 46
EthFrame(dst, src, type, payload) ==
    dst \o src \o swap16(type) \o payload
        \o Zeros(IF Len(payload) < ETHERNET_MIN_TRANSPORT_UNIT
                 THEN ETHERNET_MIN_TRANSPORT_UNIT - Len(payload) ELSE 0)

ArpFrame(opcode, sender_mac, sender_ip, target_ip) ==
    EthFrame(IF opcode = ARP_REQUEST THEN broadcast_mac ELSE net_if_mac,
             sender_mac, NET_PROTOCOL_ARP,
             arp_pkt(ARP_HW_ETHER, NET_PROTOCOL_IP, NET_MAC_LEN, NET_IP_LEN, opcode,
                     sender_mac, sender_ip,
                     IF opcode = ARP_REQUEST THEN Zeros(NET_MAC_LEN) ELSE net_if_mac,
                     target_ip))

\* valid ARP packets from peer A: a request for the local address, a request
\* for another host, a reply, and a reply that announces a new MAC for A
ArpValidFrames ==
    { ArpFrame(ARP_REQUEST, MAC_A, IP_A, net_if_ip),
      ArpFrame(ARP_REQUEST, MAC_A, IP_A, IP_B),
      ArpFrame(ARP_REPLY, MAC_A, IP_A, net_if_ip),
      ArpFrame(ARP_REPLY, MAC_A2, IP_A, net_if_ip) }

\* the packet the invalid ones are derived from
ArpGood ==
    arp_pkt(ARP_HW_ETHER, NET_PROTOCOL_IP, NET_MAC_LEN, NET_IP_LEN,
            ARP_REQUEST, MAC_A, IP_A, Zeros(NET_MAC_LEN), net_if_ip)

\* ARP packets arp_in rejects: an unknown opcode and a truncated packet
ArpInvalidFrames ==
    { EthFrame(broadcast_mac, MAC_A, NET_PROTOCOL_ARP, Poke(ArpGood, 6, swap16(3))),
      broadcast_mac \o MAC_A \o swap16(NET_PROTOCOL_ARP) \o Take(ArpGood, 27) }

\* buffers the application hands to arp_out directly
RawBufs == { <<69, 0, 7>>, [i \in 1..50 |-> i] }
DestIps == { IP_A, IP_B }

----------------------------------------------------------------------------
(* Actions *)

St == [net_if_ip |-> net_if_ip, net_if_mac |-> net_if_mac,
       arp_table |-> arp_table, arp_buf |-> arp_buf, udp_table |-> udp_table,
       ip_id |-> ip_id, now |-> now, calls |-> calls, ev |-> <<>>]

Events(log, k) == { i \in 1..Len(log) : log[i].kind = k }
Count(log, k) == Cardinality(Events(log, k))

\* an idle link
NoFrames == [self |-> <<>>, peer |-> <<>>]

\* the record of the application's last call per port
LastSet(m, port, v) == [x \in DOMAIN m \cup {port} |-> IF x = port THEN v ELSE m[x]]

Commit(s, o) ==
    /\ arp_table' = s.arp_table
    /\ arp_buf' = s.arp_buf
    /\ udp_table' = s.udp_table
    /\ ip_id' = s.ip_id
    /\ calls' = s.calls
    /\ ev' = s.ev
    /\ op' = o
    /\ flushed' = flushed \cup { s.ev[i].tag : i \in Events(s.ev, "arp_flush") }
    /\ udp_last' = IF o.kind = "udp_open" THEN LastSet(udp_last, o.port, Ptr(o.handler))
                   ELSE IF o.kind = "udp_close" THEN LastSet(udp_last, o.port, NULL)
                   ELSE udp_last
    /\ now' = now
    /\ UNCHANGED <<peer, wire>>

\* what the lookups of arp_out would find for ip right now
CacheLive(ip) == map_get(arp_table, ip, ARP_TIMEOUT_SEC, now) # NULL
PendingLive(ip) == map_get(arp_buf, ip, ARP_MIN_INTERVAL, now) # NULL

\* the application (or a test) calls arp_out with a buffer of its own
ArpOut(data, ip) ==
    /\ ntag < MaxTag
    /\ ntag' = ntag + 1
    /\ Commit(arp_out(St, buf_of(data, ntag + 1), ip),
              [kind |-> "arp_out", data |-> data, ip |-> ip, tag |-> ntag + 1,
               hit |-> CacheLive(ip), pending |-> PendingLive(ip),
               stale |-> ip \in DOMAIN arp_buf /\ ~PendingLive(ip)])

\* ethernet_poll with a frame waiting in the driver
EthernetIn(frame) ==
    /\ ntag' = ntag
    /\ Commit(ethernet_in(St, buf_of(frame, 0)),
              [kind |-> "ethernet_in", frame |-> frame])

\* time(NULL) advances by one second
Tick ==
    /\ now < MaxTime
    /\ now' = now + 1
    /\ UNCHANGED <<arp_table, arp_buf, udp_table, ip_id, calls, ntag, flushed, udp_last, peer, wire, ev, op>>

\* net_init: arp_init announces the local address
InitState ==
    arp_init([net_if_ip |-> net_if_ip, net_if_mac |-> net_if_mac,
              arp_table |-> map_init, arp_buf |-> map_init, udp_table |-> map_init,
              ip_id |-> 0, now |-> 0, calls |-> 0, ev |-> <<>>])

Init ==
    /\ arp_table = InitState.arp_table
    /\ arp_buf = InitState.arp_buf
    /\ udp_table = InitState.udp_table
    /\ ip_id = 0
    /\ now = 0
    /\ calls = 0
    /\ ntag = 0
    /\ flushed = {}
    /\ udp_last = <<>>
    /\ peer = NULL
    /\ wire = NoFrames
    /\ ev = InitState.ev
    /\ op = [kind |-> "net_init"]

ArpOutAny == \E data \in RawBufs, ip \in DestIps : ArpOut(data, ip)
ArpInAny == \E frame \in ArpValidFrames \cup ArpInvalidFrames : EthernetIn(frame)

Next == ArpOutAny \/ ArpInAny \/ Tick

Spec == Init /\ [][Next]_vars

----------------------------------------------------------------------------
(* IP traffic: what peers send, what the application sends *)

\* an ICMP message with a correct checksum
IcmpMsg(type, code, id, seq, data) ==
    LET m == <<type, code, 0, 0>> \o swap16(id) \o swap16(seq) \o data
    IN  Poke(m, 2, native16(checksum16(m, Len(m))))

\* a UDP segment with a correct pseudo-header checksum
UdpSeg(src_port, dst_port, data, src_ip, dst_ip) ==
    LET seg == swap16(src_port) \o swap16(dst_port)
                   \o swap16(UDP_HDR_LEN + Len(data)) \o <<0, 0>> \o data
        pseudo == src_ip \o dst_ip \o <<0, NET_PROTOCOL_UDP>> \o swap16(Len(seg))
    IN  Poke(seg, 6, native16(checksum16(pseudo \o seg, Len(pseudo) + Len(seg))))

\* an IP datagram with hdr_len words of header (options are NOPs), the
\* given flags/offset field and a correct header checksum
IpDatagram(hdr_len, id, flags_fragment, protocol, src_ip, dst_ip, payload) ==
    LET h == <<IP_VERSION_4 * 16 + hdr_len, 0>>
                 \o swap16(hdr_len * IP_HDR_LEN_PER_BYTE + Len(payload))
                 \o swap16(id) \o swap16(flags_fragment)
                 \o <<IP_DEFAULT_TTL, protocol, 0, 0>> \o src_ip \o dst_ip
                 \o [i \in 1..((hdr_len - IP_HDR_LEN) * IP_HDR_LEN_PER_BYTE) |-> 1]
    IN  Poke(h, 10, native16(checksum16(h, Len(h)))) \o payload

IpFrame(src_mac, datagram) == EthFrame(net_if_mac, src_mac, NET_PROTOCOL_IP, datagram)

PING == <<80, 73, 78, 71>>
EchoRequest == IcmpMsg(ICMP_TYPE_ECHO_REQUEST, 0, 1, 1, PING)
EchoReply == IcmpMsg(ICMP_TYPE_ECHO_REPLY, 0, 1, 1, PING)

\* application payloads: n bytes, all different from their neighbours
Payload(n, seed) == [i \in 1..n |-> (i * 7 + seed) % 251]

\* payload lengths around the fragmentation threshold
OutLens ==
    { 0, 5, IP_MAX_PAYLOAD, IP_MAX_PAYLOAD + 1, 2 * IP_MAX_PAYLOAD,
      2 * IP_MAX_PAYLOAD + 3 }

\* arguments of direct ip_fragment_out calls: <<id, offset, mf>>
FragArgs == { <<0, 0, 0>>, <<65535, 8, 1>>, <<258, 65528, 1>>, <<7, 65528, 0>> }
\* payload lengths around the Ethernet minimum (20 + 26 = 46) and the threshold
FragLens == { 0, 1, 26, 27, IP_MAX_PAYLOAD }

\* the count of earlier ip_out calls a run may start from
LateCalls == UINT16 - 2
CallsLeft ==
    \/ calls < MaxCalls
    \/ calls >= LateCalls /\ calls < LateCalls + MaxCalls

IpOut(data, ip, protocol) ==
    /\ CallsLeft
    /\ ntag' = ntag
    /\ Commit(ip_out(St, buf_of(data, 0), ip, protocol),
              [kind |-> "ip_out", data |-> data, ip |-> ip, protocol |-> protocol])

IpFragmentOut(data, ip, protocol, id, offset, mf) ==
    /\ ntag' = ntag
    /\ Commit(ip_fragment_out(St, buf_of(data, 0), ip, protocol, id, offset, mf),
              [kind |-> "ip_fragment_out", data |-> data, ip |-> ip,
               protocol |-> protocol, id |-> id, offset |-> offset, mf |-> mf])

\* the stack as it is after an earlier run of k ip_out calls whose ARP
\* entries are gone
InitIp ==
    /\ arp_table = InitState.arp_table
    /\ arp_buf = InitState.arp_buf
    /\ udp_table = InitState.udp_table
    /\ \E k \in {0, LateCalls} : calls = k /\ ip_id = k % UINT16
    /\ now = 0
    /\ ntag = 0
    /\ flushed = {}
    /\ udp_last = <<>>
    /\ peer = NULL
    /\ wire = NoFrames
    /\ ev = InitState.ev
    /\ op = [kind |-> "net_init"]

IpOutAny ==
    \E n \in OutLens, ip \in {IP_A} : IpOut(Payload(n, 3), ip, NET_PROTOCOL_UDP)

\* peer A resolves, pings and answers a ping
IpPeerFrames ==
    { ArpFrame(ARP_REPLY, MAC_A, IP_A, net_if_ip),
      IpFrame(MAC_A, IpDatagram(5, 9, 0, NET_PROTOCOL_ICMP, IP_A, net_if_ip, EchoRequest)),
      IpFrame(MAC_A, IpDatagram(5, 9, 0, NET_PROTOCOL_ICMP, IP_A, net_if_ip, EchoReply)) }

IpPeerAny == CallsLeft /\ \E frame \in IpPeerFrames : EthernetIn(frame)

\* one direct ip_fragment_out call and one direct arp_out call
IpDirectAny ==
    \/ IpFragmentOut(Payload(1, 11), IP_A, NET_PROTOCOL_UDP, 65535, 8, 1)
    \/ ArpOut(<<69, 0, 7>>, IP_A)

NextIp == IpOutAny \/ IpPeerAny \/ IpDirectAny

SpecIp == InitIp /\ [][NextIp]_vars

\* direct ip_fragment_out calls: to the local address with every length and
\* argument triple, to peer A with one of each
IpFragmentOutAny ==
    \/ \E n \in FragLens, a \in FragArgs :
          IpFragmentOut(Payload(n, 11), net_if_ip, NET_PROTOCOL_ICMP, a[1], a[2], a[3])
    \/ \E n \in {1, IP_MAX_PAYLOAD} :
          IpFragmentOut(Payload(n, 11), IP_A, NET_PROTOCOL_UDP, 65535, 8, 1)

FragPeerAny == EthernetIn(ArpFrame(ARP_REPLY, MAC_A, IP_A, net_if_ip))

NextFrag == IpFragmentOutAny \/ FragPeerAny

SpecFrag == Init /\ [][NextFrag]_vars

----------------------------------------------------------------------------
(* Receiving IP traffic *)

PORT_OPEN == 7000       \* the port the application opens and closes
PORT_ALT == 7001        \* a second port the application opens and closes
PORT_NONE == 9          \* a port nobody opens
PORT_SRC == 5000        \* the peer's source port

UdpFromA(dst_port, data) == UdpSeg(PORT_SRC, dst_port, data, IP_A, net_if_ip)

FromA(hdr_len, flags_fragment, protocol, payload) ==
    IpFrame(MAC_A, IpDatagram(hdr_len, 9, flags_fragment, protocol, IP_A, net_if_ip, payload))

\* well-formed, unfragmented datagrams for the local address
RxPlainFrames ==
    { FromA(5, 0, NET_PROTOCOL_ICMP, EchoRequest),
      FromA(6, 0, NET_PROTOCOL_ICMP, IcmpMsg(ICMP_TYPE_ECHO_REQUEST, 0, 2, 3, <<1, 2, 3>>)),
      FromA(5, 0, NET_PROTOCOL_ICMP, Poke(EchoRequest, 2, <<0, 0>>)),
      FromA(5, 0, NET_PROTOCOL_ICMP, EchoReply),
      FromA(5, 0, NET_PROTOCOL_ICMP, IcmpMsg(ICMP_TYPE_UNREACH, 3, 0, 0, Zeros(28))),
      FromA(5, 0, NET_PROTOCOL_UDP, UdpFromA(PORT_OPEN, PING)),
      FromA(5, 0, NET_PROTOCOL_UDP, UdpFromA(PORT_NONE, PING)),
      FromA(6, 0, NET_PROTOCOL_UDP, UdpFromA(PORT_OPEN, PING)),
      FromA(5, 0, NET_PROTOCOL_UDP, UdpFromA(PORT_ALT, <<>>)),
      FromA(15, 0, NET_PROTOCOL_UDP, UdpFromA(PORT_NONE, <<>>)),
      FromA(5, 0, 6, Payload(12, 0)),
      FromA(6, 0, 6, Payload(3, 0)),
      FromA(15, 0, 253, <<>>) }

\* fragments: MoreFragments set, or a fragment offset that is not zero
RxFragmentFrames ==
    { FromA(5, IP_MORE_FRAGMENT, NET_PROTOCOL_ICMP, EchoRequest),
      FromA(5, 10, NET_PROTOCOL_UDP, UdpFromA(PORT_OPEN, PING)),
      FromA(5, IP_MORE_FRAGMENT + 10, NET_PROTOCOL_UDP, UdpFromA(PORT_NONE, PING)),
      FromA(5, 10, NET_PROTOCOL_ICMP, EchoReply) }

RxFrames == RxPlainFrames \cup RxFragmentFrames

UdpOpen(port, handler) ==
    /\ ntag' = ntag
    /\ Commit(udp_open(St, port, handler),
              [kind |-> "udp_open", port |-> port, handler |-> handler])

UdpClose(port) ==
    /\ ntag' = ntag
    /\ Commit(udp_close(St, port), [kind |-> "udp_close", port |-> port])

RxAny == calls < MaxCalls /\ \E frame \in RxFrames : EthernetIn(frame)
RxArpAny == EthernetIn(ArpFrame(ARP_REPLY, MAC_A, IP_A, net_if_ip))
UdpPorts == {PORT_OPEN, PORT_ALT}
UdpOpens == { <<PORT_OPEN, "handler">>, <<PORT_OPEN, "handler2">>, <<PORT_ALT, "handler2">> }
UdpOpenAny == \E a \in UdpOpens : UdpOpen(a[1], a[2])
UdpCloseAny == \E port \in UdpPorts : UdpClose(port)

NextRx == RxAny \/ RxArpAny \/ UdpOpenAny \/ UdpCloseAny

SpecRx == Init /\ [][NextRx]_vars

----------------------------------------------------------------------------
(* Reading frames and logs *)

EthDst(f) == Bytes(f, 0, 6)
EthSrc(f) == Bytes(f, 6, 6)
EthType(f) == f[13] * 256 + f[14]
EthPayload(f) == Drop(f, ETHER_HDR_LEN)

IsSend(e) == e.kind = "driver_send"
\* the frames the last operation handed to the driver, in order
Sent(log) == SelectSeq(log, IsSend)

\* an inbound frame carrying an ARP packet that passes all of arp_in's checks
IsValidArp(f) ==
    /\ Len(f) >= ETHER_HDR_LEN + ARP_PKT_LEN
    /\ EthType(f) = NET_PROTOCOL_ARP
    /\ Bytes(f, 14, 6) = <<0, 1, 8, 0, 6, 4>>
    /\ f[21] = 0
    /\ f[22] \in {1, 2}
ArpOpcode(f) == f[22]
ArpSenderMac(f) == Bytes(f, 22, 6)
ArpSenderIp(f) == Bytes(f, 28, 4)
ArpTargetMac(f) == Bytes(f, 32, 6)
ArpTargetIp(f) == Bytes(f, 38, 4)

\* the step is an operation (not the clock) that received frame f
Received(f) == now' = now /\ op'.kind = "ethernet_in" /\ op'.frame = f

----------------------------------------------------------------------------
(* C1: two consecutive arp_out calls to an address X that has neither a    *)
(* live cache entry nor a live pending entry, the second within            *)
(* ARP_MIN_INTERVAL of the first: the first call broadcasts exactly one    *)
(* ARP request for X and stores its buffer as the pending entry for X; the *)
(* second call sends nothing, asks nothing and stores nothing, so the      *)
(* pending entry still holds the first buffer.                             *)

C1_FirstCall ==
    (op.kind = "arp_out" /\ ~op.hit /\ ~op.pending) =>
        /\ Len(Sent(ev)) = 1
        /\ Count(ev, "arp_req") = 1
        /\ LET f == Sent(ev)[1].frame
           IN  /\ EthDst(f) = <<255, 255, 255, 255, 255, 255>>
               /\ EthType(f) = NET_PROTOCOL_ARP
               /\ IsValidArp(f)
               /\ ArpOpcode(f) = ARP_REQUEST
               /\ ArpTargetIp(f) = op.ip
        /\ op.ip \in DOMAIN arp_buf
        /\ arp_buf[op.ip].val.data = op.data
        /\ arp_buf[op.ip].val.tag = op.tag

C1_SecondCall ==
    ( /\ op.kind = "arp_out" /\ ~op.hit /\ ~op.pending
      /\ now' = now
      /\ op'.kind = "arp_out" /\ op'.tag # op.tag /\ op'.ip = op.ip
      /\ now <= arp_buf[op.ip].ts + ARP_MIN_INTERVAL ) =>
        /\ ev' = <<>>
        /\ arp_buf' = arp_buf
        /\ arp_buf'[op.ip].val.data = op.data
        /\ arp_buf'[op.ip].val.tag = op.tag

C1_OneRequestOnePending == [][C1_FirstCall' /\ C1_SecondCall]_vars

\* the second of two such calls has just been dropped
C1_Witness ==
    /\ op.kind = "arp_out" /\ ~op.hit /\ op.pending /\ op.tag = 2
    /\ ev = <<>>
    /\ op.ip \in DOMAIN arp_buf
    /\ arp_buf[op.ip].val.tag = 1
    /\ arp_buf[op.ip].val.data # op.data

----------------------------------------------------------------------------
(* C2: a valid ARP reply from X while a live pending entry for X exists    *)
(* makes arp_in transmit exactly one frame, the pending buffer, unicast to *)
(* the reply's sender MAC with ethertype IP; afterwards X has no pending   *)
(* entry, and no later operation transmits a buffer that was flushed.      *)

C2_Flush ==
    \A f \in ArpValidFrames :
        ( /\ Received(f)
          /\ ArpOpcode(f) = ARP_REPLY
          /\ PendingLive(ArpSenderIp(f)) ) =>
            LET x == ArpSenderIp(f)
                held == arp_buf[x].val
            IN  /\ Len(Sent(ev')) = 1
                /\ LET g == Sent(ev')[1].frame
                   IN  /\ EthDst(g) = ArpSenderMac(f)
                       /\ EthSrc(g) = net_if_mac
                       /\ EthType(g) = NET_PROTOCOL_IP
                       /\ Take(EthPayload(g), Len(held.data)) = held.data
                /\ x \notin DOMAIN arp_buf'
                /\ held.tag \in flushed'

C2_NeverAgain ==
    (now' = now) =>
        \A i \in Events(ev', "ethernet_out") : ev'[i].tag \notin flushed

C2_FlushOnce == [][C2_Flush /\ C2_NeverAgain]_vars

\* a reply from A has just released the buffer that was pending for A
C2_Witness ==
    /\ op.kind = "ethernet_in"
    /\ IsValidArp(op.frame) /\ ArpOpcode(op.frame) = ARP_REPLY
    /\ Count(ev, "arp_flush") = 1
    /\ Len(Sent(ev)) = 1
    /\ flushed # {}
    /\ ArpSenderIp(op.frame) \notin DOMAIN arp_buf

----------------------------------------------------------------------------
(* C3: a valid ARP request for the local address from (S, M), with no live *)
(* pending entry for S, is answered with exactly one frame: an ARP reply   *)
(* (opcode 2) with sender = local MAC/IP and target = M/S, unicast to M    *)
(* with ethertype ARP.  With no live pending entry for the sender, a valid *)
(* request for another address and a valid reply transmit nothing.         *)

C3_Reply ==
    \A f \in ArpValidFrames :
        (Received(f) /\ ~PendingLive(ArpSenderIp(f))) =>
            IF ArpOpcode(f) = ARP_REQUEST /\ ArpTargetIp(f) = net_if_ip
            THEN /\ Len(Sent(ev')) = 1
                 /\ LET g == Sent(ev')[1].frame
                    IN  /\ EthDst(g) = ArpSenderMac(f)
                        /\ EthSrc(g) = net_if_mac
                        /\ EthType(g) = NET_PROTOCOL_ARP
                        /\ IsValidArp(g)
                        /\ ArpOpcode(g) = 2
                        /\ ArpSenderMac(g) = net_if_mac
                        /\ ArpSenderIp(g) = net_if_ip
                        /\ ArpTargetMac(g) = ArpSenderMac(f)
                        /\ ArpTargetIp(g) = ArpSenderIp(f)
            ELSE Len(Sent(ev')) = 0

----------------------------------------------------------------------------
(* C6: every frame handed to driver_send is the 14-byte header (the given  *)
(* destination MAC, the local MAC, the ethertype big-endian) followed by   *)
(* the unchanged payload and, when the payload is shorter than 46 bytes,   *)
(* zero bytes up to 46: no frame is shorter than 60 bytes.                 *)

C6_MinFrame ==
    \A i \in Events(ev, "driver_send") :
        /\ i > 1
        /\ ev[i - 1].kind = "ethernet_out"
        /\ LET f == ev[i].frame
               e == ev[i - 1]
               n == Len(e.payload)
           IN  /\ Len(f) >= 60
               /\ Len(f) = 14 + (IF n < 46 THEN 46 ELSE n)
               /\ EthDst(f) = e.mac
               /\ EthSrc(f) = net_if_mac
               /\ f[13] = e.protocol \div 256
               /\ f[14] = e.protocol % 256
               /\ Bytes(f, 14, n) = e.payload
               /\ \A k \in (14 + n + 1)..Len(f) : f[k] = 0

\* a short buffer that was pending has just been flushed, padded
C6_Witness ==
    /\ Count(ev, "arp_flush") = 1
    /\ \E i \in Events(ev, "ethernet_out") :
          /\ Len(ev[i].payload) < 46
          /\ ev[i].protocol = NET_PROTOCOL_IP
          /\ Len(ev[i + 1].frame) = 60

----------------------------------------------------------------------------
(* C4: an ip_out call with a payload of L bytes hands ceil(L/T) fragments  *)
(* to ip_fragment_out when L > T = IP_MAX_PAYLOAD, in order and with one   *)
(* id: every fragment but the last has MF = 1 and T bytes, the last has    *)
(* MF = 0; the k-th offset is (k-1)*T, a multiple of 8 that the header     *)
(* carries as offset/8 in its low 13 bits; the payloads concatenated are   *)
(* the L bytes.  For L <= T there is one fragment, offset 0, MF = 0.       *)

IsFrag(e) == e.kind = "ip_fragment_out"
\* the ip_fragment_out calls of the last operation, in order
Frags(log) == SelectSeq(log, IsFrag)
\* the flags/offset field of a datagram
FlagsFragment(d) == d[7] * 256 + d[8]

C4_Fragments ==
    \A i \in Events(ev, "ip_out") :
        LET e == ev[i]
            L == Len(e.data)
            T == IP_MAX_PAYLOAD
            frs == Frags(ev)
            n == Len(frs)
        IN  /\ Count(ev, "ip_out") = 1
            /\ n = IF L > T THEN (L + T - 1) \div T ELSE 1
            /\ \A k \in 1..n :
                 /\ frs[k].id = e.id
                 /\ frs[k].ip = e.ip
                 /\ frs[k].offset = (k - 1) * T
                 /\ frs[k].offset % 8 = 0
                 /\ k > 1 => frs[k].offset > frs[k - 1].offset
                 /\ frs[k].mf = IF k < n THEN 1 ELSE 0
                 /\ k < n => Len(frs[k].data) = T
                 /\ frs[k].data = Bytes(e.data, (k - 1) * T, Len(frs[k].data))
                 /\ FlagsFragment(frs[k].datagram) % 8192 = frs[k].offset \div 8
                 /\ (FlagsFragment(frs[k].datagram) \div IP_MORE_FRAGMENT) % 2 = frs[k].mf
                 /\ Drop(frs[k].datagram, 20) = frs[k].data
            /\ (n - 1) * T + Len(frs[n].data) = L

\* a payload of two whole chunks and three bytes has gone out in three fragments
C4_Witness ==
    /\ op.kind = "ip_out"
    /\ Len(op.data) = 2 * IP_MAX_PAYLOAD + 3
    /\ Len(Frags(ev)) = 3
    /\ Len(Frags(ev)[3].data) = 3

----------------------------------------------------------------------------
(* C5: ip_id advances by exactly one, modulo 2^16, per ip_out call and by  *)
(* nothing else: the n-th call uses id (n-1) mod 65536 for all of its      *)
(* fragments, and an operation without an ip_out call leaves ip_id alone.  *)

C5_Counter ==
    /\ ip_id = calls % 65536
    /\ \A i \in Events(ev, "ip_out") :
         /\ ev[i].n = calls
         /\ ev[i].id = (ev[i].n - 1) % 65536
         /\ \A j \in Events(ev, "ip_fragment_out") : j > i => ev[j].id = ev[i].id

C5_Step ==
    LET n == IF now' = now THEN Count(ev', "ip_out") ELSE 0
    IN  /\ calls' = calls + n
        /\ ip_id' = (ip_id + n) % 65536
        /\ n <= 1

C5_IdPerCall == [][C5_Counter' /\ C5_Step]_vars

\* the call after the one that used id 65535: three fragments with id 0
C5_Witness ==
    /\ calls = 65537
    /\ ip_id = 1
    /\ Len(Frags(ev)) = 3
    /\ \A k \in 1..3 : Frags(ev)[k].id = 0

----------------------------------------------------------------------------
(* C10: the datagram ip_fragment_out builds (payload of 0..T bytes, any    *)
(* destination, protocol, id, 8-aligned offset and MF), given to ip_in as  *)
(* it is or with the padding of ethernet_out, passes the length, version,  *)
(* header-length, total-length and checksum checks; when its destination   *)
(* is the local address, ip_in hands up exactly the original payload.      *)

PadTo46(d) ==
    d \o Zeros(IF Len(d) < ETHERNET_MIN_TRANSPORT_UNIT
               THEN ETHERNET_MIN_TRANSPORT_UNIT - Len(d) ELSE 0)

C10_RoundTrip ==
    \A i \in Events(ev, "ip_fragment_out") :
        LET e == ev[i]
        IN  \A x \in {e.datagram, PadTo46(e.datagram)} :
              /\ ip_in_check(St, x) = IF e.ip = net_if_ip THEN "ok" ELSE "dst_ip"
              /\ e.ip = net_if_ip =>
                   LET r == ip_in(St, buf_of(x, 0), net_if_mac)
                   IN  /\ Len(r.ev) >= 1
                       /\ r.ev[1].kind = "ip_deliver"
                       /\ r.ev[1].data = e.data
                       /\ r.ev[1].protocol = e.protocol
                       /\ r.ev[1].ip = net_if_ip

\* a one-byte fragment with the largest offset and MF set, to the local address
C10_Witness ==
    /\ op.kind = "ip_fragment_out"
    /\ op.ip = net_if_ip
    /\ Len(op.data) = 1
    /\ op.offset = 65528 /\ op.mf = 1
    /\ Len(Frags(ev)) = 1
    /\ Len(Frags(ev)[1].datagram) = 21

----------------------------------------------------------------------------
(* Reading received IP datagrams *)

IpHdrLen(d) == (d[1] % 16) * 4
IpProtocol(d) == d[10]
IpSrc(d) == Bytes(d, 12, 4)
IpDstOf(d) == Bytes(d, 16, 4)
\* the payload of a datagram: what its total length covers after the header
IpPayload(d) == Bytes(d, IpHdrLen(d), (d[3] * 256 + d[4]) - IpHdrLen(d))
IsFragment(d) ==
    (FlagsFragment(d) \div IP_MORE_FRAGMENT) % 2 = 1 \/ FlagsFragment(d) % 8192 # 0

\* a frame carrying a datagram ip_in accepts, with the given protocol
AcceptedIp(f, protocol) ==
    /\ EthType(f) = NET_PROTOCOL_IP
    /\ ip_in_check(St, EthPayload(f)) = "ok"
    /\ IpProtocol(EthPayload(f)) = protocol

\* a UDP segment from src_ip to the local address: length field and checksum right
GoodUdp(seg, src_ip) ==
    /\ Len(seg) >= 8
    /\ seg[5] * 256 + seg[6] = Len(seg)
    /\ seg = UdpSeg(seg[1] * 256 + seg[2], seg[3] * 256 + seg[4], Drop(seg, 8),
                    src_ip, net_if_ip)
UdpDstPort(seg) == seg[3] * 256 + seg[4]

\* the one event of kind k in log (when there is exactly one)
The(log, k) == log[CHOOSE i \in Events(log, k) : TRUE]

NoStateChange ==
    /\ arp_table' = arp_table
    /\ arp_buf' = arp_buf
    /\ udp_table' = udp_table
    /\ ip_id' = ip_id

----------------------------------------------------------------------------
(* C7: a valid datagram for the local address (any header length, 5 to 15  *)
(* words) with a UDP segment whose checksum is right and whose destination *)
(* port has no handler invokes no handler and produces exactly one ICMP    *)
(* message of type 3, code 3 for the source address, whose data is the     *)
(* received IP header followed by the first 8 bytes of the UDP segment.    *)

C7_Unreachable(frames) ==
    \A f \in frames :
        LET d == EthPayload(f)
            seg == IpPayload(d)
        IN  ( /\ Received(f)
              /\ AcceptedIp(f, NET_PROTOCOL_UDP)
              /\ GoodUdp(seg, IpSrc(d))
              /\ map_get(udp_table, UdpDstPort(seg), 0, now) = NULL ) =>
                /\ Count(ev', "handler") = 0
                /\ Count(ev', "icmp_unreachable") = 1
                /\ Count(ev', "ip_out") = 1
                /\ LET u == The(ev', "icmp_unreachable")
                   IN  /\ u.data[1] = 3
                       /\ u.data[2] = 3
                       /\ u.ip = IpSrc(d)
                       /\ Drop(u.data, 8) = Take(d, IpHdrLen(d)) \o Take(seg, 8)
                /\ The(ev', "ip_out").ip = IpSrc(d)

C7_PortUnreachable == [][C7_Unreachable(RxPlainFrames)]_vars

\* the same for datagrams whose header has no options (5 words)
C7_PortUnreachableNoOptions ==
    [][C7_Unreachable({f \in RxPlainFrames : IpHdrLen(EthPayload(f)) = 20})]_vars

----------------------------------------------------------------------------
(* C8: an echo request (type 8, at least 8 bytes) from S is answered with  *)
(* exactly one message of type 0, code 0 with the request's id, seq and    *)
(* data and a checksum that is valid over the whole message, given to      *)
(* ip_out for S, so that the datagram goes from the local address to S.    *)
(* An ICMP message of another type: no response, no state change.          *)

C8_Echo ==
    \A f \in RxPlainFrames :
        LET d == EthPayload(f)
            m == IpPayload(d)
        IN  (Received(f) /\ AcceptedIp(f, NET_PROTOCOL_ICMP) /\ Len(m) >= 8) =>
                IF m[1] = 8
                THEN /\ Count(ev', "ip_out") = 1
                     /\ Count(ev', "icmp_in") = 1
                     /\ LET o == The(ev', "ip_out")
                            r == o.data
                        IN  /\ Len(r) = Len(m)
                            /\ r[1] = 0 /\ r[2] = 0
                            /\ Drop(r, 4) = Drop(m, 4)
                            /\ checksum16(r, Len(r)) = 0
                            /\ o.ip = IpSrc(d)
                            /\ o.protocol = NET_PROTOCOL_ICMP
                            /\ Len(Frags(ev')) = 1
                            /\ LET g == Frags(ev')[1].datagram
                               IN  /\ IpSrc(g) = IpDstOf(d)
                                   /\ IpSrc(g) = net_if_ip
                                   /\ IpDstOf(g) = IpSrc(d)
                                   /\ IpProtocol(g) = NET_PROTOCOL_ICMP
                                   /\ Drop(g, 20) = r
                ELSE /\ Count(ev', "ip_out") = 0
                     /\ Len(Sent(ev')) = 0
                     /\ NoStateChange

C8_EchoReply == [][C8_Echo]_vars

\* the request with an odd number of data bytes and IP options has been answered
C8_Witness ==
    /\ op.kind = "ethernet_in"
    /\ AcceptedIp(op.frame, NET_PROTOCOL_ICMP)
    /\ IpHdrLen(EthPayload(op.frame)) = 24
    /\ Count(ev, "icmp_resp") = 1
    /\ Len(The(ev, "icmp_resp").data) = 11
    /\ The(ev, "icmp_resp").data[1] = 0

----------------------------------------------------------------------------
(* C9: a fragment (MoreFragments set or fragment offset not zero) for the  *)
(* local address is dropped: no UDP handler is invoked and no echo reply   *)
(* or other response is generated, whatever its protocol and payload.      *)

C9_Dropped ==
    \A f \in RxFragmentFrames :
        (Received(f) /\ IsFragment(EthPayload(f))) =>
            /\ Count(ev', "handler") = 0
            /\ Count(ev', "icmp_resp") = 0
            /\ Count(ev', "ip_out") = 0

C9_FragmentsDropped == [][C9_Dropped]_vars

----------------------------------------------------------------------------
(* C11: under udp_open, udp_close and udp_in a port has a handler exactly  *)
(* when the application's last call for it was a udp_open, and it is the   *)
(* handler of that call; udp_close of a port without a handler changes     *)
(* nothing.  A valid UDP datagram to a port with a handler calls that      *)
(* handler once, with the payload behind the 8-byte header, its length,    *)
(* the source address and the source port, and no ICMP message is made;    *)
(* without a handler (never opened, or closed) it is answered with one     *)
(* ICMP port-unreachable to the source.                                    *)

C11_Table ==
    /\ DOMAIN udp_table = { p \in DOMAIN udp_last : udp_last[p] # NULL }
    /\ \A p \in DOMAIN udp_table : udp_table[p].val = Deref(udp_last[p])

C11_Close ==
    (op'.kind = "udp_close" /\ op'.port \notin DOMAIN udp_table) =>
        /\ udp_table' = udp_table
        /\ ev' = <<>>
        /\ NoStateChange

C11_Deliver ==
    \A f \in RxPlainFrames :
        LET d == EthPayload(f)
            seg == IpPayload(d)
            port == UdpDstPort(seg)
        IN  ( /\ Received(f)
              /\ AcceptedIp(f, NET_PROTOCOL_UDP)
              /\ GoodUdp(seg, IpSrc(d)) ) =>
                IF port \in DOMAIN udp_last /\ udp_last[port] # NULL
                THEN /\ Count(ev', "handler") = 1
                     /\ LET h == The(ev', "handler")
                        IN  /\ h.handler = Deref(udp_last[port])
                            /\ h.data = Drop(seg, UDP_HDR_LEN)
                            /\ h.len = Len(seg) - UDP_HDR_LEN
                            /\ h.ip = IpSrc(d)
                            /\ h.port = seg[1] * 256 + seg[2]
                     /\ Count(ev', "icmp_unreachable") = 0
                     /\ Count(ev', "ip_out") = 0
                     /\ Len(Sent(ev')) = 0
                     /\ udp_table' = udp_table
                ELSE /\ Count(ev', "handler") = 0
                     /\ Count(ev', "icmp_unreachable") = 1
                     /\ LET u == The(ev', "icmp_unreachable")
                        IN  /\ u.data[1] = ICMP_TYPE_UNREACH
                            /\ u.data[2] = ICMP_CODE_PORT_UNREACH
                            /\ u.ip = IpSrc(d)
                     /\ udp_table' = udp_table

C11_PortTable == [][C11_Table' /\ C11_Close /\ C11_Deliver]_vars

\* the port's handler was replaced, and the datagram went to the second one
C11_Witness ==
    /\ op.kind = "ethernet_in"
    /\ op.frame = FromA(5, 0, NET_PROTOCOL_UDP, UdpFromA(PORT_OPEN, PING))
    /\ Count(ev, "handler") = 1
    /\ The(ev, "handler").handler = "handler2"
    /\ The(ev, "handler").data = PING
    /\ PORT_ALT \in DOMAIN udp_last /\ udp_last[PORT_ALT] = NULL

----------------------------------------------------------------------------
(* checksum16 on its own: a caller has a region with a zeroed, 16-bit      *)
(* aligned checksum field, stores checksum16 of the region in the field    *)
(* (as ip_fragment_out, icmp_resp and udp_out do) and a receiver sums the  *)
(* region again.                                                           *)

RECURSIVE SeqsOf(_, _)
SeqsOf(S, n) ==
    IF n = 0 THEN {<<>>}
    ELSE LET shorter == SeqsOf(S, n - 1)
         IN  shorter \cup { Append(q, b) : q \in {x \in shorter : Len(x) = n - 1}, b \in S }

\* regions of up to MaxSumLen bytes; 255 and 1 make the sum carry
SumRegions == SeqsOf({0, 1, 255}, MaxSumLen)
\* the offsets a checksum field can have in a region of n bytes
SumFields(n) == { k \in 0..n : k % 2 = 0 /\ k + 2 <= n }

InitSum ==
    /\ arp_table = map_init
    /\ arp_buf = map_init
    /\ udp_table = map_init
    /\ ip_id = 0
    /\ now = 0
    /\ calls = 0
    /\ ntag = 0
    /\ flushed = {}
    /\ udp_last = <<>>
    /\ peer = NULL
    /\ wire = NoFrames
    /\ ev = <<>>
    /\ \E d \in SumRegions :
          \/ op = [kind |-> "region", data |-> d, field |-> -1]
          \/ \E k \in SumFields(Len(d)) :
                op = [kind |-> "region", data |-> Poke(d, k, <<0, 0>>), field |-> k]

\* the sender: hdr->checksum16 = checksum16(region, len)
ChecksumFill ==
    /\ op.kind = "region"
    /\ LET sum == checksum16(op.data, Len(op.data))
       IN  /\ ev' = <<[kind |-> "checksum16", data |-> op.data, sum |-> sum]>>
           /\ op' = [kind |-> "filled", field |-> op.field,
                     data |-> IF op.field >= 0
                              THEN Poke(op.data, op.field, native16(sum))
                              ELSE op.data]
    /\ UNCHANGED <<arp_table, arp_buf, udp_table, ip_id, now, calls, ntag, flushed, udp_last, peer, wire>>

\* the receiver: checksum16 over the region with the field filled in
ChecksumVerify ==
    /\ op.kind = "filled"
    /\ op.field >= 0
    /\ ev' = Append(ev, [kind |-> "checksum16", data |-> op.data,
                         sum |-> checksum16(op.data, Len(op.data))])
    /\ op' = [op EXCEPT !.kind = "verified"]
    /\ UNCHANGED <<arp_table, arp_buf, udp_table, ip_id, now, calls, ntag, flushed, udp_last, peer, wire>>

NextSum == ChecksumFill \/ ChecksumVerify

SpecSum == InitSum /\ [][NextSum]_vars

----------------------------------------------------------------------------
(* C12: for a region with a zeroed 16-bit aligned checksum field, storing  *)
(* checksum16 of the region in the field and summing the region again      *)
(* gives 0; checksum16 is the complement, in 16 bits, of the end-around    *)
(* carry sum of the region's 16-bit words, an odd last byte counting as a  *)
(* word whose other byte is zero.                                          *)

\* the words of a region as the host reads them, the odd byte padded
WordAt(d, i) == d[2 * i - 1] + 256 * (IF 2 * i <= Len(d) THEN d[2 * i] ELSE 0)
RECURSIVE WordTotal(_, _)
WordTotal(d, n) == IF n = 0 THEN 0 ELSE WordTotal(d, n - 1) + WordAt(d, n)
\* the end-around carry sum of a total: 0 for 0, else in 1..65535
EndAround(t) == IF t = 0 THEN 0 ELSE ((t - 1) % 65535) + 1

C12_Checksum ==
    /\ \A i \in Events(ev, "checksum16") :
          /\ ev[i].sum \in 0..65535
          /\ ev[i].sum = 65535 - EndAround(WordTotal(ev[i].data, (Len(ev[i].data) + 1) \div 2))
    /\ op.kind = "verified" =>
          /\ Len(ev) = 2
          /\ ev[2].data = Poke(ev[1].data, op.field, <<ev[1].sum % 256, ev[1].sum \div 256>>)
          /\ ev[2].sum = 0

\* an odd region whose sum carries: 0xFFFF + 0x00FF
C12_Witness ==
    /\ op.kind = "verified"
    /\ Len(ev) = 2
    /\ ev[1].data = <<0, 0, 255, 255, 255>>
    /\ ev[1].sum = 65280
    /\ ev[2].data = <<0, 255, 255, 255, 255>>
    /\ ev[2].sum = 0

----------------------------------------------------------------------------
(* Malformed frames: each is a frame of peer A that the stack would act on *)
(* (an ARP request for the local address, an echo request, a UDP datagram  *)
(* for an open port) with one thing wrong.                                 *)

\* a frame as it is, without the padding a sending driver adds
RawFrame(dst, src, type, payload) == dst \o src \o swap16(type) \o payload

\* d with the checksum of its first 20 bytes recomputed
FixSum(d) ==
    LET z == Poke(d, 10, <<0, 0>>)
    IN  Poke(z, 10, native16(checksum16(z, IP_HDR_LEN * IP_HDR_LEN_PER_BYTE)))

PingDatagram == IpDatagram(5, 9, 0, NET_PROTOCOL_ICMP, IP_A, net_if_ip, EchoRequest)
UdpGood == UdpFromA(PORT_OPEN, PING)
ArpRequestFrom(pkt) == EthFrame(broadcast_mac, MAC_A, NET_PROTOCOL_ARP, pkt)

BadEthFrames ==
    { Take(ArpFrame(ARP_REQUEST, MAC_A, IP_A, net_if_ip), 13),
      EthFrame(net_if_mac, MAC_A, 34525, PingDatagram) }

BadArpFrames ==
    { RawFrame(broadcast_mac, MAC_A, NET_PROTOCOL_ARP, Take(ArpGood, 27)),
      ArpRequestFrom(Poke(ArpGood, 0, swap16(6))),
      ArpRequestFrom(Poke(ArpGood, 2, swap16(NET_PROTOCOL_ARP))),
      ArpRequestFrom(Poke(ArpGood, 4, <<5>>)),
      ArpRequestFrom(Poke(ArpGood, 5, <<6>>)),
      ArpRequestFrom(Poke(ArpGood, 6, swap16(3))),
      ArpRequestFrom(Poke(ArpGood, 6, swap16(0))) }

BadIpFrames ==
    { RawFrame(net_if_mac, MAC_A, NET_PROTOCOL_IP, Take(PingDatagram, 19)),
      IpFrame(MAC_A, FixSum(Poke(PingDatagram, 0, <<6 * 16 + 5>>))),
      IpFrame(MAC_A, FixSum(Poke(PingDatagram, 0, <<4 * 16 + 4>>))),
      IpFrame(MAC_A, FixSum(Poke(PingDatagram, 2, swap16(2000)))),
      IpFrame(MAC_A, FixSum(Poke(PingDatagram, 2, swap16(19)))),
      IpFrame(MAC_A, Poke(PingDatagram, 10, <<PingDatagram[11], (PingDatagram[12] + 1) % 256>>)),
      IpFrame(MAC_A, IpDatagram(5, 9, 0, NET_PROTOCOL_ICMP, IP_A, IP_B, EchoRequest)) }

BadUdpFrames ==
    { FromA(5, 0, NET_PROTOCOL_UDP, Take(UdpGood, 7)),
      FromA(5, 0, NET_PROTOCOL_UDP, Poke(UdpGood, 4, swap16(13))),
      FromA(5, 0, NET_PROTOCOL_UDP, Poke(UdpGood, 8, <<81>>)),
      FromA(6, 0, NET_PROTOCOL_UDP, Poke(UdpFromA(PORT_NONE, PING), 6, <<0, 0>>)) }

BadFrames == BadEthFrames \cup BadArpFrames \cup BadIpFrames \cup BadUdpFrames

\* the well-formed frames the malformed ones are derived from
GoodFrames ==
    { ArpFrame(ARP_REQUEST, MAC_A, IP_A, net_if_ip),
      ArpFrame(ARP_REPLY, MAC_A, IP_A, net_if_ip),
      IpFrame(MAC_A, PingDatagram),
      FromA(5, 0, NET_PROTOCOL_UDP, UdpGood) }

BadAny == \E frame \in BadFrames : EthernetIn(frame)
GoodAny == calls < MaxCalls /\ \E frame \in GoodFrames : EthernetIn(frame)
DropAppAny ==
    \/ ArpOut(<<69, 0, 7>>, IP_A)
    \/ UdpOpen(PORT_OPEN, "handler")

NextDrop == BadAny \/ GoodAny \/ DropAppAny

SpecDrop == Init /\ [][NextDrop]_vars

----------------------------------------------------------------------------
(* C13: a frame rejected by a check (Ethernet: shorter than 14 bytes,      *)
(* ethertype not registered; ARP: shorter than 28, hw type not 1, protocol *)
(* type not 0x0800, hw length not 6, protocol length not 4, opcode not 1   *)
(* or 2; IP: shorter than 20, version not 4, header length below 5 words,  *)
(* total length above the buffer length or below the header length,        *)
(* header checksum wrong, destination not the local address; UDP: shorter  *)
(* than 8, declared length above the buffer length, checksum wrong) makes  *)
(* the stack send no frame, invoke no handler and change none of the ARP   *)
(* cache, the pending table, the port table and the id counter.            *)

EthRejects(f) ==
    \/ Len(f) < 14
    \/ EthType(f) \notin {NET_PROTOCOL_ARP, NET_PROTOCOL_IP, NET_PROTOCOL_ICMP, NET_PROTOCOL_UDP}

ArpRejects(a) ==
    \/ Len(a) < 28
    \/ a[1] * 256 + a[2] # 1
    \/ a[3] * 256 + a[4] # 2048
    \/ a[5] # 6
    \/ a[6] # 4
    \/ a[7] * 256 + a[8] \notin {1, 2}

IpRejects(d) ==
    \/ Len(d) < 20
    \/ d[1] \div 16 # 4
    \/ d[1] % 16 < 5
    \/ d[3] * 256 + d[4] > Len(d)
    \/ d[3] * 256 + d[4] < (d[1] % 16) * 4
    \/ d[11] + 256 * d[12] # checksum16(Poke(d, 10, <<0, 0>>), (d[1] % 16) * 4)
    \/ Bytes(d, 16, 4) # net_if_ip

UdpRejects(seg, src_ip) ==
    \/ Len(seg) < 8
    \/ seg[5] * 256 + seg[6] > Len(seg)
    \/ LET u == Take(seg, seg[5] * 256 + seg[6])
           pseudo == src_ip \o net_if_ip \o <<0, 17, u[5], u[6]>>
           all == pseudo \o Poke(u, 6, <<0, 0>>)
       IN  u[7] + 256 * u[8] # checksum16(all, Len(all))

Rejects(f) ==
    \/ EthRejects(f)
    \/ EthType(f) = NET_PROTOCOL_ARP /\ ArpRejects(EthPayload(f))
    \/ EthType(f) = NET_PROTOCOL_IP /\ IpRejects(EthPayload(f))
    \/ /\ EthType(f) = NET_PROTOCOL_IP
       /\ ~IpRejects(EthPayload(f))
       /\ IpProtocol(EthPayload(f)) = NET_PROTOCOL_UDP
       /\ UdpRejects(IpPayload(EthPayload(f)), IpSrc(EthPayload(f)))

C13_NoTrace ==
    \A f \in BadFrames \cup GoodFrames :
        (Received(f) /\ Rejects(f)) =>
            /\ Len(Sent(ev')) = 0
            /\ Count(ev', "handler") = 0
            /\ Count(ev', "ip_out") = 0
            /\ NoStateChange

C13_SilentDrop == [][C13_NoTrace]_vars

\* a UDP datagram for an open port with a wrong checksum has been dropped,
\* with a cache entry and a pending entry in place
C13_Witness ==
    /\ op.kind = "ethernet_in"
    /\ op.frame = FromA(5, 0, NET_PROTOCOL_UDP, Poke(UdpGood, 8, <<81>>))
    /\ Rejects(op.frame)
    /\ Count(ev, "udp_in") = 1
    /\ Len(Sent(ev)) = 0
    /\ PORT_OPEN \in DOMAIN udp_table
    /\ IP_A \in DOMAIN arp_table
    /\ calls > 0

----------------------------------------------------------------------------
(* C14: a valid ARP packet (request or reply, any target address) whose    *)
(* sender has a live pending entry makes arp_in send the held buffer to    *)
(* the sender MAC with ethertype IP, delete the entry and return: no ARP   *)
(* reply goes out even when the packet is a request for the local          *)
(* address.  The cache already holds the sender when the flush starts.     *)

C14_Flush ==
    \A f \in ArpValidFrames :
        (Received(f) /\ PendingLive(ArpSenderIp(f))) =>
            LET x == ArpSenderIp(f)
                held == arp_buf[x].val
            IN  /\ Count(ev', "arp_flush") = 1
                /\ Count(ev', "arp_resp") = 0
                /\ Count(ev', "arp_req") = 0
                /\ Len(Sent(ev')) = 1
                /\ LET g == Sent(ev')[1].frame
                   IN  /\ EthDst(g) = ArpSenderMac(f)
                       /\ EthType(g) = NET_PROTOCOL_IP
                       /\ EthPayload(g) = PadTo46(held.data)
                /\ x \notin DOMAIN arp_buf'
                /\ The(ev', "arp_flush").cached = Ptr(ArpSenderMac(f))
                /\ arp_table'[x] = [val |-> ArpSenderMac(f), ts |-> now]

C14_FlushFirst == [][C14_Flush]_vars

\* a request for the local address has released the pending buffer and got
\* no reply
C14_Witness ==
    /\ op.kind = "ethernet_in"
    /\ op.frame = ArpFrame(ARP_REQUEST, MAC_A, IP_A, net_if_ip)
    /\ Count(ev, "arp_flush") = 1
    /\ Count(ev, "arp_resp") = 0
    /\ Len(Sent(ev)) = 1
    /\ EthType(Sent(ev)[1].frame) = NET_PROTOCOL_IP

----------------------------------------------------------------------------
(* ARP traffic of peer A next to IP traffic with peer B, whose address is  *)
(* never resolved: the application sends to B.                             *)

PingFromB == IpFrame(MAC_B, IpDatagram(5, 4, 0, NET_PROTOCOL_ICMP, IP_B, net_if_ip, EchoRequest))

LearnOtherAny ==
    \/ ArpOut(<<69, 0, 7>>, IP_A)
    \/ calls < MaxCalls /\ IpOut(Payload(5, 3), IP_B, NET_PROTOCOL_UDP)

NextLearn == ArpInAny \/ Tick \/ LearnOtherAny

SpecLearn == Init /\ [][NextLearn]_vars

----------------------------------------------------------------------------
(* C15: every ARP packet that passes arp_in's checks, request or reply,    *)
(* for the local address or not, makes the cache map its sender IP to its  *)
(* sender MAC with the current time, whatever the cache held for that IP;  *)
(* nothing else creates or changes a cache entry.                          *)

C15_Step ==
    IF /\ now' = now
       /\ op'.kind = "ethernet_in"
       /\ IsValidArp(op'.frame)
    THEN LET f == op'.frame
             x == ArpSenderIp(f)
         IN  /\ DOMAIN arp_table' = DOMAIN arp_table \cup {x}
             /\ arp_table'[x] = [val |-> ArpSenderMac(f), ts |-> now]
             /\ \A y \in DOMAIN arp_table \ {x} : arp_table'[y] = arp_table[y]
    ELSE arp_table' = arp_table

C15_Learning == [][C15_Step]_vars

\* a request of A for another host, seen later, has replaced the MAC and the
\* time of A's entry
C15_Witness ==
    /\ op.kind = "ethernet_in"
    /\ op.frame = ArpFrame(ARP_REQUEST, MAC_A, IP_A, IP_B)
    /\ now > 0
    /\ arp_table[IP_A] = [val |-> MAC_A, ts |-> now]
    /\ IP_B \notin DOMAIN arp_table
    /\ IP_B \in DOMAIN arp_buf
    /\ calls > 0

----------------------------------------------------------------------------
(* C16: arp_out(buf, X) sends buf at once (one frame, ethertype IP, to the *)
(* cached MAC; no ARP request, no pending entry) exactly when the cache    *)
(* has an entry for X that is at most ARP_TIMEOUT old at the call; an      *)
(* older entry counts as absent and the call stores the buffer as pending  *)
(* and broadcasts an ARP request, or drops the buffer when a live pending  *)
(* entry exists.  Nothing happens when an entry expires.                   *)

\* the step is an arp_out call of the application
ArpOutCalled == now' = now /\ op'.kind = "arp_out" /\ ntag' = ntag + 1

C16_Call ==
    ArpOutCalled =>
        LET x == op'.ip
            fresh == x \in DOMAIN arp_table /\ now - arp_table[x].ts <= ARP_TIMEOUT_SEC
            waiting == x \in DOMAIN arp_buf /\ now - arp_buf[x].ts <= ARP_MIN_INTERVAL
        IN  /\ arp_table' = arp_table
            /\ IF fresh
               THEN /\ Len(Sent(ev')) = 1
                    /\ LET g == Sent(ev')[1].frame
                       IN  /\ EthType(g) = NET_PROTOCOL_IP
                           /\ EthDst(g) = arp_table[x].val
                           /\ EthPayload(g) = PadTo46(op'.data)
                    /\ Count(ev', "arp_req") = 0
                    /\ arp_buf' = arp_buf
               ELSE IF waiting
               THEN /\ Len(Sent(ev')) = 0
                    /\ arp_buf' = arp_buf
               ELSE /\ Len(Sent(ev')) = 1
                    /\ Count(ev', "arp_req") = 1
                    /\ LET g == Sent(ev')[1].frame
                       IN  /\ EthType(g) = NET_PROTOCOL_ARP
                           /\ EthDst(g) = <<255, 255, 255, 255, 255, 255>>
                           /\ ArpOpcode(g) = ARP_REQUEST
                           /\ ArpTargetIp(g) = x
                    /\ x \in DOMAIN arp_buf'
                    /\ arp_buf'[x].val.data = op'.data
                    /\ arp_buf'[x].val.tag = op'.tag
                    /\ arp_buf'[x].ts = now

C16_Expiry ==
    (now' # now) => /\ ev' = ev
                    /\ arp_table' = arp_table
                    /\ arp_buf' = arp_buf

C16_CacheLifetime == [][C16_Call /\ C16_Expiry]_vars

\* a call found an entry older than ARP_TIMEOUT and asked again
C16_Witness ==
    /\ op.kind = "arp_out"
    /\ op.ip \in DOMAIN arp_table
    /\ now - arp_table[op.ip].ts > ARP_TIMEOUT_SEC
    /\ Count(ev, "arp_req") = 1
    /\ arp_buf[op.ip].val.tag = op.tag

----------------------------------------------------------------------------
(* C17: an ARP request is sent only by arp_init (one) and by an arp_out    *)
(* call that finds neither a live cache entry nor a live pending entry for *)
(* the target; the clock and received ARP packets send none.  When the     *)
(* pending entry of X is older than ARP_MIN_INTERVAL, the next arp_out to  *)
(* X stores its buffer in place of the old one and broadcasts one new      *)
(* request; the old buffer is never sent.                                  *)

C17_Init == op.kind = "net_init" => /\ Count(ev, "arp_req") = 1
                                    /\ The(ev, "arp_req").ip = net_if_ip

C17_Requests ==
    (now' = now) =>
        \A i \in Events(ev', "arp_req") :
            LET x == ev'[i].ip
            IN  /\ ~CacheLive(x)
                /\ ~PendingLive(x)
                /\ Count(ev', "arp_req") = 1
                /\ \/ ArpOutCalled /\ op'.ip = x
                   \/ i > 1 /\ ev'[i - 1].kind = "ip_fragment_out" /\ ev'[i - 1].ip = x
                /\ ~(op'.kind = "ethernet_in" /\ EthType(op'.frame) = NET_PROTOCOL_ARP)

C17_Clock == (now' # now) => ev' = ev

C17_Retry ==
    ( /\ ArpOutCalled
      /\ ~CacheLive(op'.ip)
      /\ op'.ip \in DOMAIN arp_buf
      /\ now - arp_buf[op'.ip].ts > ARP_MIN_INTERVAL ) =>
        /\ arp_buf'[op'.ip].val.tag = op'.tag
        /\ arp_buf'[op'.ip].val.data = op'.data
        /\ arp_buf'[op'.ip].ts = now
        /\ Len(Sent(ev')) = 1
        /\ Count(ev', "arp_req") = 1
        /\ ArpTargetIp(Sent(ev')[1].frame) = op'.ip
        /\ EthDst(Sent(ev')[1].frame) = <<255, 255, 255, 255, 255, 255>>

\* a buffer of the application goes out only as the buffer of the current
\* call or as a live pending entry
C17_OldNeverSent ==
    (now' = now) =>
        \A i \in Events(ev', "ethernet_out") :
            ev'[i].tag # 0 =>
                \/ ArpOutCalled /\ ev'[i].tag = op'.tag
                \/ \E x \in DOMAIN arp_buf : PendingLive(x) /\ arp_buf[x].val.tag = ev'[i].tag

C17_ImplicitRetry ==
    [][C17_Init' /\ C17_Requests /\ C17_Clock /\ C17_Retry /\ C17_OldNeverSent]_vars

\* the second buffer has replaced an expired pending entry, with a request
C17_Witness ==
    /\ op.kind = "arp_out"
    /\ op.stale
    /\ ~op.hit
    /\ op.tag = 2
    /\ arp_buf[op.ip].val.tag = 2
    /\ arp_buf[op.ip].ts = now
    /\ Count(ev, "arp_req") = 1

----------------------------------------------------------------------------
(* C18: a datagram ip_in accepts whose protocol has no handler is answered *)
(* with exactly one ICMP destination-unreachable, code 2, to its source;   *)
(* the data of the message is the datagram's IP header in its declared     *)
(* length followed by the first 8 bytes of its payload, zero-padded to 8   *)
(* when the payload is shorter.  With a handler for the protocol no        *)
(* protocol-unreachable is sent.                                           *)

First8(payload) ==
    IF Len(payload) >= 8 THEN Take(payload, 8) ELSE payload \o Zeros(8 - Len(payload))

C18_Step ==
    \A f \in RxFrames :
        LET d == EthPayload(f)
        IN  (Received(f) /\ EthType(f) = NET_PROTOCOL_IP /\ ~IpRejects(d)) =>
                IF IpProtocol(d) \notin {NET_PROTOCOL_ICMP, NET_PROTOCOL_UDP}
                THEN /\ Count(ev', "icmp_unreachable") = 1
                     /\ Count(ev', "ip_out") = 1
                     /\ Count(ev', "handler") = 0
                     /\ LET u == The(ev', "icmp_unreachable")
                        IN  /\ u.ip = IpSrc(d)
                            /\ Len(u.data) = 8 + IpHdrLen(d) + 8
                            /\ u.data[1] = 3
                            /\ u.data[2] = 2
                            /\ checksum16(u.data, Len(u.data)) = 0
                            /\ Drop(u.data, 8) = Take(d, IpHdrLen(d)) \o First8(IpPayload(d))
                     /\ The(ev', "ip_out").ip = IpSrc(d)
                     /\ The(ev', "ip_out").data = The(ev', "icmp_unreachable").data
                ELSE \A i \in Events(ev', "icmp_unreachable") :
                         ev'[i].code # ICMP_CODE_PROTOCOL_UNREACH

C18_ProtocolUnreachable == [][C18_Step]_vars

\* a datagram with one option word and three bytes of an unknown protocol
C18_Witness ==
    /\ op.kind = "ethernet_in"
    /\ op.frame = FromA(6, 0, 6, Payload(3, 0))
    /\ Count(ev, "icmp_unreachable") = 1
    /\ Len(The(ev, "icmp_unreachable").data) = 40
    /\ The(ev, "icmp_unreachable").code = 2
    /\ Len(Sent(ev)) = 1

----------------------------------------------------------------------------
(* C19: after every arp_init, arp_in and arp_out call, no address has a    *)
(* live cache entry and a live pending entry at the same time, and the     *)
(* pending table holds at most one buffer per address.                     *)

C19_Exclusive ==
    /\ \A x \in DOMAIN arp_table \cap DOMAIN arp_buf :
          ~( /\ now - arp_table[x].ts <= ARP_TIMEOUT_SEC
             /\ now - arp_buf[x].ts <= ARP_MIN_INTERVAL )
    /\ \A x \in DOMAIN arp_buf :
          /\ DOMAIN arp_buf[x] = {"val", "ts"}
          /\ DOMAIN arp_buf[x].val = {"pre", "data", "post", "tag"}
          /\ arp_buf[x].val.tag \in 0..ntag
    /\ \A x, y \in DOMAIN arp_buf :
          (arp_buf[x].val.tag # 0 /\ arp_buf[x].val.tag = arp_buf[y].val.tag) => x = y

\* A has a live cache entry next to a pending entry that expired before the
\* reply came
C19_Witness ==
    /\ op.kind = "ethernet_in"
    /\ IP_A \in DOMAIN arp_table
    /\ IP_A \in DOMAIN arp_buf
    /\ CacheLive(IP_A)
    /\ ~PendingLive(IP_A)
    /\ Count(ev, "arp_flush") = 0

----------------------------------------------------------------------------
(* C20: an ip_out call that makes n >= 2 fragments for a destination with  *)
(* neither a live cache entry nor a live pending entry broadcasts exactly  *)
(* one ARP request and leaves only the first fragment (offset 0, MF = 1)   *)
(* pending; fragments 2..n are dropped, so a later ARP reply releases one  *)
(* fragment and the rest of the datagram is never sent.  With a live       *)
(* cache entry all n fragments are sent, in offset order.                  *)

IpOutCalled == now' = now /\ op'.kind = "ip_out"

C20_Call ==
    (IpOutCalled /\ Len(Frags(ev')) >= 2) =>
        LET x == op'.ip
            frs == Frags(ev')
            n == Len(frs)
        IN  /\ (~CacheLive(x) /\ ~PendingLive(x)) =>
                  /\ Count(ev', "arp_req") = 1
                  /\ Len(Sent(ev')) = 1
                  /\ EthType(Sent(ev')[1].frame) = NET_PROTOCOL_ARP
                  /\ EthDst(Sent(ev')[1].frame) = <<255, 255, 255, 255, 255, 255>>
                  /\ ArpTargetIp(Sent(ev')[1].frame) = x
                  /\ arp_buf'[x].val.data = frs[1].datagram
                  /\ FlagsFragment(arp_buf'[x].val.data) = IP_MORE_FRAGMENT
                  /\ arp_buf'[x].ts = now
                  /\ \A y \in DOMAIN arp_buf' \ {x} : y \in DOMAIN arp_buf /\ arp_buf'[y] = arp_buf[y]
            /\ CacheLive(x) =>
                  /\ Count(ev', "arp_req") = 0
                  /\ Len(Sent(ev')) = n
                  /\ \A k \in 1..n :
                        LET g == Sent(ev')[k].frame
                        IN  /\ EthType(g) = NET_PROTOCOL_IP
                            /\ EthDst(g) = arp_table[x].val
                            /\ EthPayload(g) = PadTo46(frs[k].datagram)
                            /\ FlagsFragment(EthPayload(g)) % 8192 = ((k - 1) * IP_MAX_PAYLOAD) \div 8
                  /\ arp_buf' = arp_buf

\* an IP frame goes out only as a fragment of the running call or as the
\* buffer that was pending for the sender of an ARP packet
C20_OnlyPendingLater ==
    (now' = now) =>
        \A i \in Events(ev', "ethernet_out") :
            ev'[i].protocol = NET_PROTOCOL_IP =>
                \/ \E k \in 1..Len(Frags(ev')) : Frags(ev')[k].datagram = ev'[i].payload
                \/ /\ op'.kind = "ethernet_in"
                   /\ Len(Sent(ev')) = 1
                   /\ \E x \in DOMAIN arp_buf :
                         PendingLive(x) /\ arp_buf[x].val.data = ev'[i].payload
                   /\ arp_buf' = [x \in DOMAIN arp_buf \ {ArpSenderIp(op'.frame)} |-> arp_buf[x]]
                \/ op'.kind = "arp_out" /\ ev'[i].payload = op'.data

C20_FirstFragmentOnly == [][C20_Call /\ C20_OnlyPendingLater]_vars

\* the reply of A has released the first of three fragments, and nothing is
\* left pending
C20_Witness ==
    /\ op.kind = "ethernet_in"
    /\ EthType(op.frame) = NET_PROTOCOL_ARP
    /\ Count(ev, "arp_flush") = 1
    /\ Len(Sent(ev)) = 1
    /\ Len(Sent(ev)[1].frame) = ETHER_HDR_LEN + 20 + IP_MAX_PAYLOAD
    /\ FlagsFragment(EthPayload(Sent(ev)[1].frame)) = IP_MORE_FRAGMENT
    /\ arp_buf = <<>>

----------------------------------------------------------------------------
(* One received frame at a time: every kind of frame the stack answers,    *)
(* from a peer whose address is cached (A, once it has announced itself)   *)
(* and from one whose address is not (B), next to an application that      *)
(* leaves a datagram pending and opens a port.  Two of the echo requests   *)
(* carry more than IP_MAX_PAYLOAD bytes of ICMP: one in an IP datagram     *)
(* that is 8 bytes longer than the link's MTU, and one directly in an      *)
(* Ethernet frame of ethertype 1 whose payload fills the MTU exactly (the  *)
(* registry that dispatches ethertypes is the one that dispatches IP       *)
(* protocol numbers, so ethertype 1 reaches icmp_in, with the first four   *)
(* bytes of the source MAC as the address to answer).                      *)

ETHERNET_MAX_TRANSPORT_UNIT == IP_MAX_PAYLOAD + IP_HDR_LEN * IP_HDR_LEN_PER_BYTE

FullEcho == FromA(5, 0, NET_PROTOCOL_ICMP, IcmpMsg(ICMP_TYPE_ECHO_REQUEST, 0, 2, 3, Payload(IP_MAX_PAYLOAD - ICMP_HDR_LEN, 1)))
BigEcho == FromA(5, 0, NET_PROTOCOL_ICMP, IcmpMsg(ICMP_TYPE_ECHO_REQUEST, 0, 2, 3, Payload(IP_MAX_PAYLOAD, 1)))
RawEcho == EthFrame(net_if_mac, IP_A \o <<0, 1>>, NET_PROTOCOL_ICMP, IcmpMsg(ICMP_TYPE_ECHO_REQUEST, 0, 2, 3, Payload(ETHERNET_MAX_TRANSPORT_UNIT - ICMP_HDR_LEN, 1)))

OneFrames ==
    { ArpFrame(ARP_REQUEST, MAC_A, IP_A, net_if_ip),
      ArpFrame(ARP_REPLY, MAC_A, IP_A, net_if_ip),
      FromA(5, 0, NET_PROTOCOL_ICMP, EchoRequest),
      FromA(5, 0, NET_PROTOCOL_ICMP, EchoReply),
      FromA(5, 0, NET_PROTOCOL_UDP, UdpFromA(PORT_NONE, PING)),
      FromA(5, 0, NET_PROTOCOL_UDP, UdpFromA(PORT_OPEN, PING)),
      FromA(5, 0, 6, Payload(12, 0)),
      PingFromB,
      FullEcho, BigEcho, RawEcho }

NextOne ==
    \/ calls < MaxCalls /\ \E frame \in OneFrames : EthernetIn(frame)
    \/ ArpOut(<<69, 0, 7>>, IP_A)
    \/ UdpOpen(PORT_OPEN, "handler")

SpecOne == Init /\ [][NextOne]_vars

----------------------------------------------------------------------------
(* C21: processing one received frame through ethernet_in (no handler      *)
(* sends anything) hands at most one frame to the link-send primitive:     *)
(* one ARP reply, one flushed pending datagram, one IP datagram carrying   *)
(* an echo reply or an ICMP unreachable, or one broadcast ARP request for  *)
(* that reply's destination; never two or more.                            *)

\* what the one frame may be
C21_Kind(f) ==
    \/ /\ EthType(f) = NET_PROTOCOL_ARP
       /\ f[22] \in {ARP_REQUEST, ARP_REPLY}
    \/ /\ EthType(f) = NET_PROTOCOL_IP
       /\ IpProtocol(EthPayload(f)) = NET_PROTOCOL_ICMP
       /\ IpPayload(EthPayload(f))[1] \in {ICMP_TYPE_ECHO_REPLY, ICMP_TYPE_UNREACH}
    \/ /\ EthType(f) = NET_PROTOCOL_IP
       /\ Count(ev', "arp_flush") = 1

C21_Step ==
    (op'.kind = "ethernet_in" /\ now' = now) =>
        /\ Len(Sent(ev')) <= 1
        /\ \A k \in 1..Len(Sent(ev')) : C21_Kind(Sent(ev')[k].frame)

C21_NoAmplification == [][C21_Step]_vars

\* the part of C21 that holds: the same, for frames whose echo request (if
\* any) is no longer than IP_MAX_PAYLOAD
C21_Short ==
    (\A i \in Events(ev', "icmp_resp") : Len(ev'[i].data) <= IP_MAX_PAYLOAD) => C21_Step

C21_NoAmplificationShort == [][C21_Short]_vars

\* an echo request has been answered with two frames
C21_Amplified ==
    /\ op.kind = "ethernet_in"
    /\ Count(ev, "icmp_resp") = 1
    /\ Len(Sent(ev)) = 2

----------------------------------------------------------------------------
(* IP datagrams from two peers while the clock runs: A announces itself    *)
(* by ARP (and later sends from another MAC), B never does.  The           *)
(* datagrams are echo requests (one longer than IP_MAX_PAYLOAD), a UDP     *)
(* segment for a closed port, an unknown protocol, and an echo reply,      *)
(* which needs no answer.                                                  *)

FromB(protocol, payload) == IpFrame(MAC_B, IpDatagram(5, 4, 0, protocol, IP_B, net_if_ip, payload))

HeldFrames ==
    { IpFrame(MAC_A2, IpDatagram(5, 9, 0, NET_PROTOCOL_ICMP, IP_A, net_if_ip, EchoRequest)),
      FromA(5, 0, NET_PROTOCOL_UDP, UdpFromA(PORT_NONE, PING)),
      FromA(5, 0, NET_PROTOCOL_ICMP, EchoReply),
      BigEcho,
      PingFromB,
      FromB(6, Payload(12, 0)) }

NextHeld ==
    \/ calls < MaxCalls /\ \E frame \in HeldFrames : EthernetIn(frame)
    \/ EthernetIn(ArpFrame(ARP_REPLY, MAC_A, IP_A, net_if_ip))
    \/ Tick

SpecHeld == Init /\ [][NextHeld]_vars

----------------------------------------------------------------------------
(* C22: receiving an IP frame leaves the ARP cache unchanged (the frame's  *)
(* source MAC is ignored).  So when an echo request or a datagram that     *)
(* triggers an ICMP unreachable arrives from a source with no live cache   *)
(* entry, the response is not transmitted by that receive: it is stored as *)
(* the pending entry of the source (or dropped if one is pending already)  *)
(* and no frame is sent but the broadcast ARP request for the source.      *)

C22_NoLearn ==
    (op'.kind = "ethernet_in" /\ now' = now /\ EthType(op'.frame) = NET_PROTOCOL_IP) =>
        arp_table' = arp_table

\* the ICMP message the receive has generated
C22_Response(log) ==
    IF Count(log, "icmp_resp") = 1 THEN The(log, "icmp_resp").data
    ELSE The(log, "icmp_unreachable").data

C22_Held ==
    \A f \in HeldFrames :
        LET d == EthPayload(f)
            src == IpSrc(d)
            m == IpPayload(d)
            asks == \/ IpProtocol(d) = NET_PROTOCOL_ICMP /\ m[1] = ICMP_TYPE_ECHO_REQUEST
                    \/ IpProtocol(d) = NET_PROTOCOL_UDP /\ map_get(udp_table, UdpDstPort(m), 0, now) = NULL
                    \/ IpProtocol(d) \notin {NET_PROTOCOL_ICMP, NET_PROTOCOL_UDP}
        IN  (Received(f) /\ ip_in_check(St, d) = "ok" /\ asks /\ ~CacheLive(src)) =>
                /\ Count(ev', "icmp_resp") + Count(ev', "icmp_unreachable") = 1
                /\ \A k \in 1..Len(Sent(ev')) : EthType(Sent(ev')[k].frame) # NET_PROTOCOL_IP
                /\ IF PendingLive(src)
                   THEN /\ arp_buf' = arp_buf
                        /\ Sent(ev') = <<>>
                   ELSE /\ Len(Sent(ev')) = 1
                        /\ LET q == Sent(ev')[1].frame
                           IN  /\ EthDst(q) = broadcast_mac
                               /\ IsValidArp(q)
                               /\ ArpOpcode(q) = ARP_REQUEST
                               /\ ArpSenderIp(q) = net_if_ip
                               /\ ArpTargetIp(q) = src
                        /\ DOMAIN arp_buf' = DOMAIN arp_buf \cup {src}
                        /\ \A x \in DOMAIN arp_buf \ {src} : arp_buf'[x] = arp_buf[x]
                        /\ arp_buf'[src].ts = now
                        /\ LET g == arp_buf'[src].val.data
                               r == C22_Response(ev')
                           IN  /\ g = Frags(ev')[1].datagram
                               /\ IpDstOf(g) = src
                               /\ IpSrc(g) = net_if_ip
                               /\ IpProtocol(g) = NET_PROTOCOL_ICMP
                               /\ IF Len(r) <= IP_MAX_PAYLOAD
                                  THEN IpPayload(g) = r /\ FlagsFragment(g) = 0
                                  ELSE /\ IpPayload(g) = Take(r, IP_MAX_PAYLOAD)
                                       /\ FlagsFragment(g) = IP_MORE_FRAGMENT

C22_NoArpLearning == [][C22_NoLearn /\ C22_Held]_vars

\* A, whose cache entry has expired, has sent an echo request from a MAC
\* the cache never held: the reply is pending and the cache still has the
\* old entry
C22_Witness ==
    /\ op.kind = "ethernet_in"
    /\ EthType(op.frame) = NET_PROTOCOL_IP
    /\ EthSrc(op.frame) = MAC_A2
    /\ IP_A \in DOMAIN arp_table
    /\ arp_table[IP_A].val = MAC_A
    /\ ~CacheLive(IP_A)
    /\ Count(ev, "icmp_resp") = 1
    /\ Len(Sent(ev)) = 1
    /\ EthType(Sent(ev)[1].frame) = NET_PROTOCOL_ARP
    /\ IP_A \in DOMAIN arp_buf
    /\ IpPayload(arp_buf[IP_A].val.data) = The(ev, "icmp_resp").data

----------------------------------------------------------------------------
(* Two instances of the stack back to back: this host and a peer running   *)
(* the same code with the addresses of A.  Every frame one instance hands  *)
(* to its driver is queued for the other, whose next ethernet_poll         *)
(* receives it.  Each instance announces itself at start (arp_init).  The  *)
(* applications make at most MaxTag sends between them.                    *)

Hosts == {"self", "peer"}
Other(h) == IF h = "self" THEN "peer" ELSE "self"

\* the globals of an instance: its state without the clock and the log
Globals(s) == [f \in DOMAIN s \ {"now", "ev"} |-> s[f]]

\* net_init of the peer
PeerInit ==
    arp_init([net_if_ip |-> IP_A, net_if_mac |-> MAC_A,
              arp_table |-> map_init, arp_buf |-> map_init, udp_table |-> map_init,
              ip_id |-> 0, now |-> 0, calls |-> 0, ev |-> <<>>])

\* the state a call on host h starts from
HostSt(h) ==
    IF h = "self" THEN St
    ELSE [net_if_ip |-> peer.net_if_ip, net_if_mac |-> peer.net_if_mac,
          arp_table |-> peer.arp_table, arp_buf |-> peer.arp_buf,
          udp_table |-> peer.udp_table, ip_id |-> peer.ip_id,
          now |-> now, calls |-> peer.calls, ev |-> <<>>]

RECURSIVE FramesOf(_)
\* the frames of a sequence of driver_send events
FramesOf(sent) == IF sent = <<>> THEN <<>> ELSE <<Head(sent).frame>> \o FramesOf(Tail(sent))

\* host h has run a call that ended in state s, the link holding w before
\* the call's frames are added: they are queued for the other host
NetCommit(h, s, o, w) ==
    /\ op' = o
    /\ IF h = "self"
       THEN /\ arp_table' = s.arp_table
            /\ arp_buf' = s.arp_buf
            /\ udp_table' = s.udp_table
            /\ ip_id' = s.ip_id
            /\ calls' = s.calls
            /\ peer' = peer
       ELSE /\ peer' = Globals(s)
            /\ UNCHANGED <<arp_table, arp_buf, udp_table, ip_id, calls>>
    /\ wire' = [w EXCEPT ![Other(h)] = @ \o FramesOf(Sent(s.ev))]
    /\ ev' = s.ev
    /\ UNCHANGED <<now, flushed, udp_last>>

\* ethernet_poll of host h with a frame waiting
Poll(h) ==
    /\ wire[h] # <<>>
    /\ ntag' = ntag
    /\ NetCommit(h, ethernet_in(HostSt(h), buf_of(Head(wire[h]), 0)),
                 [kind |-> "ethernet_in", host |-> h, frame |-> Head(wire[h])],
                 [wire EXCEPT ![h] = Tail(@)])

\* an echo request that ip_out sends as two fragments, the second of which
\* starts with the type of an echo request
TwoPings == Poke(IcmpMsg(ICMP_TYPE_ECHO_REQUEST, 0, 2, 3, Payload(IP_MAX_PAYLOAD + 8, 1)), IP_MAX_PAYLOAD, <<ICMP_TYPE_ECHO_REQUEST>>)

\* what the applications send: this host pings the peer and sends to a port
\* the peer has not opened; the peer sends a datagram of an unknown protocol
\* and a ping of two fragments
NetSends ==
    { [host |-> "self", kind |-> "ip_out", ip |-> IP_A, protocol |-> NET_PROTOCOL_ICMP, data |-> EchoRequest],
      [host |-> "self", kind |-> "udp_send", ip |-> IP_A, port |-> PORT_NONE, data |-> PING],
      [host |-> "peer", kind |-> "ip_out", ip |-> net_if_ip, protocol |-> 6, data |-> Payload(12, 0)],
      [host |-> "peer", kind |-> "ip_out", ip |-> net_if_ip, protocol |-> NET_PROTOCOL_ICMP, data |-> TwoPings] }

\* the application of a host sends
NetSend(a) ==
    /\ ntag < MaxTag
    /\ ntag' = ntag + 1
    /\ NetCommit(a.host,
                 IF a.kind = "ip_out"
                 THEN ip_out(HostSt(a.host), buf_of(a.data, 0), a.ip, a.protocol)
                 ELSE udp_send(HostSt(a.host), a.data, Len(a.data), PORT_SRC, a.ip, a.port),
                 a, wire)

InitNet ==
    /\ arp_table = InitState.arp_table
    /\ arp_buf = InitState.arp_buf
    /\ udp_table = InitState.udp_table
    /\ ip_id = 0
    /\ now = 0
    /\ calls = 0
    /\ ntag = 0
    /\ flushed = {}
    /\ udp_last = <<>>
    /\ peer = Globals(PeerInit)
    /\ wire = [self |-> FramesOf(Sent(PeerInit.ev)), peer |-> FramesOf(Sent(InitState.ev))]
    /\ ev = InitState.ev
    /\ op = [kind |-> "net_init"]

\* nothing happens for longer than an ARP entry lives
Idle ==
    /\ now + ARP_TIMEOUT_SEC + 1 <= MaxTime
    /\ now' = now + ARP_TIMEOUT_SEC + 1
    /\ UNCHANGED <<arp_table, arp_buf, udp_table, ip_id, calls, ntag, flushed, udp_last, peer, wire, ev, op>>

NextNet ==
    \/ \E h \in Hosts : Poll(h)
    \/ \E a \in NetSends : NetSend(a)
    \/ Idle

\* the main loop of each instance calls ethernet_poll again and again: weak
\* fairness of Poll(h), WF_vars(Poll(h)), with ENABLED <<Poll(h)>>_vars written
\* as what it amounts to, a frame waiting for h (Poll(h) takes that frame off
\* the link, so it always changes vars)
PollFair(h) == []<>(wire[h] = <<>>) \/ []<><<Poll(h)>>_vars

SpecNet == InitNet /\ [][NextNet]_vars /\ PollFair("self") /\ PollFair("peer")

----------------------------------------------------------------------------
(* C23: two instances back to back, handlers that send nothing, finitely   *)
(* many application sends: every execution reaches a state from which no   *)
(* frame is in flight and none is transmitted any more.  An ARP reply      *)
(* elicits no ARP reply and a received ICMP message of type 0 or 3 elicits *)
(* no response.                                                            *)

Quiet == wire.self = <<>> /\ wire.peer = <<>>

C23_NoAnswer ==
    \A h \in Hosts :
        (op'.kind = "ethernet_in" /\ op'.host = h /\ now' = now) =>
            LET f == op'.frame
                d == EthPayload(f)
            IN  /\ (IsValidArp(f) /\ ArpOpcode(f) = ARP_REPLY) =>
                       \A k \in 1..Len(Sent(ev')) :
                           EthType(Sent(ev')[k].frame) # NET_PROTOCOL_ARP
                /\ (/\ EthType(f) = NET_PROTOCOL_IP
                    /\ ip_in_check(HostSt(h), d) = "ok"
                    /\ IpProtocol(d) = NET_PROTOCOL_ICMP
                    /\ IpPayload(d)[1] \in {ICMP_TYPE_ECHO_REPLY, ICMP_TYPE_UNREACH}) =>
                       /\ Sent(ev') = <<>>
                       /\ Count(ev', "ip_out") = 0
                       /\ wire'[Other(h)] = wire[Other(h)]

C23_Quiescence == [][C23_NoAnswer]_vars /\ <>[]Quiet

\* the peer's port-unreachable has arrived here and was the last frame in
\* flight; the applications have made all their sends
C23_Witness ==
    /\ op.kind = "ethernet_in"
    /\ op.host = "self"
    /\ EthType(op.frame) = NET_PROTOCOL_IP
    /\ IpProtocol(EthPayload(op.frame)) = NET_PROTOCOL_ICMP
    /\ IpPayload(EthPayload(op.frame))[1] = ICMP_TYPE_UNREACH
    /\ Count(ev, "icmp_in") = 1
    /\ ntag = MaxTag
    /\ Quiet

=============================================================================
